---- MODULE Spec2Model ----
(***************************************************************************)
(* Verification model of the GROQ language server's schema loader          *)
(* (src/src/schema/SchemaLoader.ts, the class at lines 199-698): schema    *)
(* file loading, validation against depth / count limits,                  *)
(* the on-disk validation cache, and type resolution.                      *)
(***************************************************************************)
EXTENDS Integers, Sequences, FiniteSets, TLC

(***************************************************************************)
(* JSON values as JSON.parse produces them.  Every value is a record with  *)
(* a kind tag k; arrays carry their items, objects their members in        *)
(* insertion order (the order Object.keys / Object.values report).         *)
(***************************************************************************)
JNull == [k |-> "null"]
JUndef == [k |-> "undefined"]
JStr(s) == [k |-> "string", s |-> s]
JNum(n) == [k |-> "number", n |-> n]
JArr(items) == [k |-> "array", items |-> items]
JObj(members) == [k |-> "object", members |-> members]
Mem(key, val) == [key |-> key, val |-> val]

\* const x = v; rest: v is evaluated once and the rest computed from its value
Let(v, Rest(_)) == CHOOSE r \in { Rest(x) : x \in {v} } : TRUE

IsString(v) == v.k = "string"
IsArray(v) == v.k = "array"
\* typeof v === 'object' && v !== null
IsObjectLike(v) == v.k \in {"array", "object"}
\* typeof v === 'object' (null included)
TypeofObject(v) == v.k \in {"array", "object", "null"}
\* a property read v.key throws a TypeError exactly on null and undefined
CanRead(v) == v.k \notin {"null", "undefined"}
Truthy(v) ==
  \/ IsObjectLike(v)
  \/ (v.k = "string" /\ v.s /= "")
  \/ (v.k = "number" /\ v.n /= 0)

\* 'key' in v, for an object-like v and a non-index key
HasKey(v, key) ==
  /\ v.k = "object"
  /\ \E i \in 1..Len(v.members) : v.members[i].key = key

\* v.key for a readable v: the member's value, undefined when absent
Get(v, key) ==
  IF v.k = "object" /\ \E i \in 1..Len(v.members) : v.members[i].key = key
  THEN LET i == CHOOSE j \in 1..Len(v.members) :
                  /\ v.members[j].key = key
                  /\ \A h \in (j+1)..Len(v.members) : v.members[h].key /= key
       IN v.members[i].val
  ELSE JUndef

\* Object.values(v)
ObjectValues(v) ==
  IF v.k = "object" THEN [i \in 1..Len(v.members) |-> v.members[i].val]
  ELSE IF v.k = "array" THEN v.items
  ELSE << >>

\* Object.keys(v).length
KeyCount(v) ==
  IF v.k = "object" THEN Len(v.members)
  ELSE IF v.k = "array" THEN Len(v.items)
  ELSE IF v.k = "string" THEN Len(v.s)
  ELSE 0

(***************************************************************************)
(* Validation configuration and results.                                   *)
(***************************************************************************)
DefaultMaxDepth == 50
DefaultMaxTypes == 10000
DefaultMaxFieldsPerType == 1000
CACHE_VERSION == 1

DEFAULT_VALIDATION_CONFIG ==
  [enabled |-> TRUE, maxDepth |-> DefaultMaxDepth, maxTypes |-> DefaultMaxTypes,
   maxFieldsPerType |-> DefaultMaxFieldsPerType, cacheValidation |-> TRUE]

\* An error message is the template that produced it together with the
\* values interpolated into it; cached counts the " (cached)" suffixes.
NoNum == -1
Msg(text, tname, fname, count, limit) ==
  [text |-> text, tname |-> tname, fname |-> fname,
   count |-> count, limit |-> limit, cached |-> 0]
NullMsg == Msg("null", "", "", NoNum, NoNum)
DefaultFailedMsg == Msg("Schema validation failed", "", "", NoNum, NoNum)

Valid == [valid |-> TRUE, error |-> NullMsg, threw |-> FALSE]
Invalid(msg) == [valid |-> FALSE, error |-> msg, threw |-> FALSE]
Threw == [valid |-> FALSE, error |-> NullMsg, threw |-> TRUE]

(***************************************************************************)
(* Shape detection.                                                        *)
(***************************************************************************)
isGroqTypeSchema(raw) ==
  IF IsArray(raw) /\ Len(raw.items) > 0
  THEN LET first == raw.items[1] IN
       /\ IsObjectLike(first)
       /\ HasKey(first, "name")
       /\ \/ HasKey(first, "attributes")
          \/ (HasKey(first, "value") /\ TypeofObject(Get(first, "value")))
  ELSE IF IsObjectLike(raw) /\ ~HasKey(raw, "types")
  THEN LET values == ObjectValues(raw) IN
       IF Len(values) > 0
       THEN IsObjectLike(values[1]) /\ HasKey(values[1], "name")
       ELSE FALSE
  ELSE FALSE

isSanitySchema(raw) ==
  IsObjectLike(raw) /\ HasKey(raw, "types") /\ IsArray(Get(raw, "types"))

(***************************************************************************)
(* Depth check.                                                            *)
(***************************************************************************)
RECURSIVE DepthOK(_, _, _)
DepthOK(value, currentDepth, maxDepth) ==
  /\ currentDepth <= maxDepth
  /\ IF IsObjectLike(value)
     THEN \A child \in { ObjectValues(value)[i] : i \in 1..KeyCount(value) } :
             DepthOK(child, currentDepth + 1, maxDepth)
     ELSE TRUE

\* checkDepth rejecting a value that sits at the maximum depth itself
checkDepthInclusive(value, currentDepth, cfg) ==
  IF DepthOK(value, currentDepth + 1, cfg.maxDepth) THEN Valid
  ELSE Invalid(Msg("Schema exceeds maximum nesting depth of ${limit}",
                   "", "", NoNum, cfg.maxDepth))
checkDepth(value, currentDepth, cfg) ==
  IF DepthOK(value, currentDepth, cfg.maxDepth) THEN Valid
  ELSE Invalid(Msg("Schema exceeds maximum nesting depth of ${limit}",
                   "", "", NoNum, cfg.maxDepth))

(***************************************************************************)
(* Structural checks.                                                      *)
(***************************************************************************)
TooManyTypes(n, cfg) ==
  Invalid(Msg("Schema contains ${count} types, exceeding maximum of ${limit}",
              "", "", n, cfg.maxTypes))
\* TooManyFields reporting the type-count limit instead of the field limit
TooManyFieldsWrongLimit(tname, n, cfg) ==
  Invalid(Msg("Type \"${tname}\" has ${count} fields, exceeding maximum of ${limit}",
              tname, "", n, cfg.maxTypes))
TooManyFields(tname, n, cfg) ==
  Invalid(Msg("Type \"${tname}\" has ${count} fields, exceeding maximum of ${limit}",
              tname, "", n, cfg.maxFieldsPerType))
TypeMissingName ==
  Invalid(Msg("Schema type missing required \"name\" field", "", "", NoNum, NoNum))
TypeMissingType(tname) ==
  Invalid(Msg("Schema type \"${tname}\" missing required \"type\" field",
              tname, "", NoNum, NoNum))

RECURSIVE SanityFieldsFrom(_, _, _)
SanityFieldsFrom(fields, i, tname) ==
  IF i > Len(fields) THEN Valid
  ELSE LET field == fields[i] IN
       IF ~CanRead(field) THEN Threw
       ELSE LET fname == Get(field, "name") IN
            IF ~IsString(fname) \/ fname.s = ""
            THEN Invalid(Msg("Field in type \"${tname}\" missing required \"name\"",
                             tname, "", NoNum, NoNum))
            ELSE IF ~IsString(Get(field, "type"))
            THEN Invalid(Msg("Field \"${fname}\" in type \"${tname}\" missing required \"type\"",
                             tname, fname.s, NoNum, NoNum))
            ELSE SanityFieldsFrom(fields, i + 1, tname)

SanityTypeCheck(schemaType, cfg) ==
  IF ~CanRead(schemaType) THEN Threw
  ELSE LET name == Get(schemaType, "name")
           fields == Get(schemaType, "fields")
       IN
       IF ~IsString(name) \/ name.s = "" THEN TypeMissingName
       ELSE IF ~IsString(Get(schemaType, "type")) THEN TypeMissingType(name.s)
       ELSE IF Truthy(fields)
       THEN IF ~IsArray(fields)
            THEN Invalid(Msg("Type \"${tname}\" has invalid \"fields\" (must be an array)",
                             name.s, "", NoNum, NoNum))
            ELSE IF Len(fields.items) > cfg.maxFieldsPerType
            THEN TooManyFields(name.s, Len(fields.items), cfg)
            ELSE SanityFieldsFrom(fields.items, 1, name.s)
       ELSE Valid

RECURSIVE SanityTypesFrom(_, _, _)
SanityTypesFrom(types, i, cfg) ==
  IF i > Len(types) THEN Valid
  ELSE Let(SanityTypeCheck(types[i], cfg), LAMBDA r :
         IF r.valid THEN SanityTypesFrom(types, i + 1, cfg) ELSE r)

validateSanitySchemaStructure(schema, cfg) ==
  Let(Get(schema, "types"), LAMBDA types :
    IF ~IsArray(types)
    THEN Invalid(Msg("Sanity schema \"types\" must be an array", "", "", NoNum, NoNum))
    ELSE IF Len(types.items) > cfg.maxTypes
    THEN TooManyTypes(Len(types.items), cfg)
    ELSE SanityTypesFrom(types.items, 1, cfg))

\* schemaType.attributes || schemaType.value?.attributes
GroqAttributes(schemaType) ==
  LET a == Get(schemaType, "attributes")
      v == Get(schemaType, "value")
  IN IF Truthy(a) THEN a
     ELSE IF CanRead(v) THEN Get(v, "attributes") ELSE JUndef

GroqTypeCheck(schemaType, cfg) ==
  IF ~CanRead(schemaType) THEN Threw
  ELSE LET name == Get(schemaType, "name")
           attributes == GroqAttributes(schemaType)
       IN
       IF ~IsString(name) \/ name.s = "" THEN TypeMissingName
       ELSE IF ~IsString(Get(schemaType, "type")) THEN TypeMissingType(name.s)
       ELSE IF Truthy(attributes) /\ KeyCount(attributes) > cfg.maxFieldsPerType
       THEN TooManyFields(name.s, KeyCount(attributes), cfg)
       ELSE Valid

RECURSIVE GroqTypesFrom(_, _, _)
GroqTypesFrom(types, i, cfg) ==
  IF i > Len(types) THEN Valid
  ELSE Let(GroqTypeCheck(types[i], cfg), LAMBDA r :
         IF r.valid THEN GroqTypesFrom(types, i + 1, cfg) ELSE r)

validateGroqTypeSchemaStructure(raw, cfg) ==
  Let(ObjectValues(raw), LAMBDA types :
    IF Len(types) > cfg.maxTypes THEN TooManyTypes(Len(types), cfg)
    ELSE GroqTypesFrom(types, 1, cfg))

\* validateStructure taking every value that is not of the query-type
\* shape for a document-store schema
validateStructureTwoShapes(parsed, cfg) ==
  IF isGroqTypeSchema(parsed) THEN validateGroqTypeSchemaStructure(parsed, cfg)
  ELSE validateSanitySchemaStructure(parsed, cfg)
validateStructure(parsed, cfg) ==
  IF isGroqTypeSchema(parsed) THEN validateGroqTypeSchemaStructure(parsed, cfg)
  ELSE IF isSanitySchema(parsed) THEN validateSanitySchemaStructure(parsed, cfg)
  ELSE Invalid(Msg("Schema does not match expected Sanity or GROQ type schema format",
                   "", "", NoNum, NoNum))

validateSchema(parsed, cfg) ==
  Let(checkDepth(parsed, 0, cfg), LAMBDA depthResult :
    IF ~depthResult.valid THEN depthResult
    ELSE validateStructure(parsed, cfg))

(***************************************************************************)
(* Resolution.  A Map is the sequence of its entries in insertion order;   *)
(* set() on a present key replaces the value in place.                     *)
(***************************************************************************)
MapHas(m, key) == \E i \in 1..Len(m) : m[i].key = key
MapGet(m, key) ==
  IF MapHas(m, key)
  THEN m[CHOOSE i \in 1..Len(m) : m[i].key = key].val
  ELSE JUndef
MapSet(m, key, val) ==
  IF MapHas(m, key)
  THEN [i \in 1..Len(m) |-> IF m[i].key = key THEN Mem(key, val) ELSE m[i]]
  ELSE Append(m, Mem(key, val))

Done(v) == [threw |-> FALSE, value |-> v]
Raised(v) == [threw |-> TRUE, value |-> v]

ResolvedFieldOf(name, type, isReference, referenceTargets, isArray, arrayOf, description) ==
  [name |-> name, type |-> type, isReference |-> isReference,
   referenceTargets |-> referenceTargets, isArray |-> isArray,
   arrayOf |-> arrayOf, description |-> description]

isDocumentType(schemaType) == Get(schemaType, "type") = JStr("document")
isReferenceField(field) == Get(field, "type") = JStr("reference")
\* isArrayField taking every field that carries "of" for an array
isArrayFieldByItems(field) ==
  Get(field, "type") = JStr("array") \/ Truthy(Get(field, "of"))
isArrayField(field) == Get(field, "type") = JStr("array")

\* list.map(e => e.type): throws when list has no map method (not an array)
\* or an element is null
MapTypeOf(list) ==
  IF ~IsArray(list) THEN Raised(JUndef)
  ELSE IF \E i \in 1..Len(list.items) : ~CanRead(list.items[i]) THEN Raised(JUndef)
  ELSE Done(JArr([i \in 1..Len(list.items) |-> Get(list.items[i], "type")]))

getReferenceTargets(field) ==
  IF ~Truthy(Get(field, "to")) THEN Done(JArr(<< >>)) ELSE MapTypeOf(Get(field, "to"))
getArrayItemTypes(field) ==
  IF ~Truthy(Get(field, "of")) THEN Done(JArr(<< >>)) ELSE MapTypeOf(Get(field, "of"))

BuiltinField(n, t) ==
  ResolvedFieldOf(JStr(n), JStr(t), FALSE, JUndef, FALSE, JUndef, JUndef)
BuiltinFields ==
  << BuiltinField("_id", "string"), BuiltinField("_type", "string"),
     BuiltinField("_createdAt", "datetime"), BuiltinField("_updatedAt", "datetime"),
     BuiltinField("_rev", "string") >>

RECURSIVE SetAll(_, _, _)
SetAll(m, fields, i) ==
  IF i > Len(fields) THEN m
  ELSE Let(MapSet(m, fields[i].name, fields[i]), LAMBDA m1 :
         SetAll(m1, fields, i + 1))

\* one iteration of the field loop of resolveType
ResolveSanityField(field) ==
  IF ~CanRead(field) THEN Raised(JUndef)
  ELSE LET targets == IF isReferenceField(field) THEN getReferenceTargets(field)
                      ELSE Done(JUndef)
           items == IF isArrayField(field) THEN getArrayItemTypes(field)
                    ELSE Done(JUndef)
       IN IF targets.threw \/ items.threw THEN Raised(JUndef)
          ELSE Done(ResolvedFieldOf(Get(field, "name"), Get(field, "type"),
                                    isReferenceField(field), targets.value,
                                    isArrayField(field), items.value,
                                    Get(field, "description")))

RECURSIVE SanityFieldLoop(_, _, _)
SanityFieldLoop(m, fields, i) ==
  IF i > Len(fields) THEN Done(m)
  ELSE Let(ResolveSanityField(fields[i]), LAMBDA r :
         IF r.threw THEN Raised(m)
         ELSE Let(MapSet(m, r.value.name, r.value), LAMBDA m1 :
                SanityFieldLoop(m1, fields, i + 1)))

\* for (const field of schemaType.fields): an array is walked, a string
\* yields its characters (each resolves to one field keyed undefined), any
\* other truthy value is not iterable
IterateFields(fields) ==
  IF ~Truthy(fields) THEN Done(<< >>)
  ELSE IF IsArray(fields) THEN SanityFieldLoop(<< >>, fields.items, 1)
  ELSE IF IsString(fields)
  THEN Done(<< Mem(JUndef, ResolvedFieldOf(JUndef, JUndef, FALSE, JUndef,
                                           FALSE, JUndef, JUndef)) >>)
  ELSE Raised(<< >>)

resolveType(schemaType) ==
  IF ~CanRead(schemaType) THEN Raised(JUndef)
  ELSE Let(IterateFields(Get(schemaType, "fields")), LAMBDA declared :
         IF declared.threw THEN Raised(JUndef)
         ELSE Done([name |-> Get(schemaType, "name"),
                    fields |-> IF isDocumentType(schemaType)
                               THEN SetAll(declared.value, BuiltinFields, 1)
                               ELSE declared.value,
                    isDocument |-> isDocumentType(schemaType)]))

\* the loop of resolveTypes over schema.types, from an emptied map; a throw
\* leaves the entries set so far
RECURSIVE SanityTypeLoop(_, _, _)
SanityTypeLoop(m, types, i) ==
  IF i > Len(types) THEN Done(m)
  ELSE Let(resolveType(types[i]), LAMBDA r :
         IF r.threw THEN Raised(m)
         ELSE Let(MapSet(m, Get(types[i], "name"), r.value), LAMBDA m1 :
                SanityTypeLoop(m1, types, i + 1)))

resolveTypes(schema) ==
  Let(Get(schema, "types").items, LAMBDA types : SanityTypeLoop(<< >>, types, 1))

resolveGroqAttribute(name, attr) ==
  LET value == Get(attr, "value") IN
  IF ~CanRead(value) THEN Raised(JUndef)
  ELSE LET vtype == Get(value, "type")
           to == Get(value, "to")
           of == Get(value, "of")
       IN
       IF vtype = JStr("reference") /\ Truthy(to)
       THEN LET targets == MapTypeOf(to) IN
            IF targets.threw THEN Raised(JUndef)
            ELSE Done(ResolvedFieldOf(JStr(name), JStr("reference"), TRUE,
                                      targets.value, FALSE, JUndef, JUndef))
       ELSE IF vtype = JStr("array") /\ Truthy(of)
       THEN LET arrayOf ==
                  IF Get(of, "type") = JStr("inline") /\ Truthy(Get(of, "name"))
                  THEN Get(of, "name")
                  ELSE IF Get(of, "type") = JStr("object")
                          /\ CanRead(Get(of, "rest"))
                          /\ Truthy(Get(Get(of, "rest"), "name"))
                  THEN Get(Get(of, "rest"), "name")
                  ELSE Get(of, "type")
            IN Done(ResolvedFieldOf(JStr(name), JStr("array"), FALSE, JUndef,
                                    TRUE, JArr(<< arrayOf >>), JUndef))
       ELSE IF vtype = JStr("inline") /\ Truthy(Get(value, "name"))
       THEN Done(ResolvedFieldOf(JStr(name), Get(value, "name"), FALSE, JUndef,
                                 FALSE, JUndef, JUndef))
       ELSE Done(ResolvedFieldOf(JStr(name), vtype, FALSE, JUndef,
                                 FALSE, JUndef, JUndef))

\* Object.entries(attributes)
ObjectEntries(v) ==
  IF v.k = "object" THEN v.members
  ELSE IF v.k = "array" THEN [i \in 1..Len(v.items) |-> Mem(ToString(i - 1), v.items[i])]
  ELSE << >>

RECURSIVE GroqAttributeLoop(_, _, _)
GroqAttributeLoop(m, entries, i) ==
  IF i > Len(entries) THEN Done(m)
  ELSE LET attr == entries[i].val IN
       IF ~CanRead(attr) THEN Raised(m)
       ELSE IF Get(attr, "type") /= JStr("objectAttribute")
       THEN GroqAttributeLoop(m, entries, i + 1)
       ELSE Let(resolveGroqAttribute(entries[i].key, attr), LAMBDA r :
              IF r.threw THEN Raised(m)
              ELSE Let(MapSet(m, JStr(entries[i].key), r.value), LAMBDA m1 :
                     GroqAttributeLoop(m1, entries, i + 1)))

resolveGroqType(schemaType) ==
  IF ~CanRead(schemaType) THEN Raised(JUndef)
  ELSE Let(GroqAttributes(schemaType), LAMBDA attributes :
         Let(IF Truthy(attributes)
             THEN Let(ObjectEntries(attributes), LAMBDA entries :
                        GroqAttributeLoop(<< >>, entries, 1))
             ELSE Done(<< >>),
             LAMBDA fields :
               IF fields.threw THEN Raised(JUndef)
               ELSE Done([name |-> Get(schemaType, "name"),
                          fields |-> fields.value,
                          isDocument |-> Get(schemaType, "type") = JStr("document")])))

RECURSIVE GroqTypeLoop(_, _, _)
GroqTypeLoop(m, types, i) ==
  IF i > Len(types) THEN Done(m)
  ELSE Let(resolveGroqType(types[i]), LAMBDA r :
         IF r.threw THEN Raised(m)
         ELSE Let(MapSet(m, Get(types[i], "name"), r.value), LAMBDA m1 :
                GroqTypeLoop(m1, types, i + 1)))

resolveGroqTypeSchema(raw) ==
  Let(ObjectValues(raw), LAMBDA types : GroqTypeLoop(<< >>, types, 1))

\* resolveTypesFromRaw: the map is emptied first; schema is assigned only
\* for the document-store shape.  value holds the type map reached, schema
\* the value of this.schema afterwards (oldSchema when not assigned).
resolveTypesFromRaw(raw, oldSchema) ==
  IF isGroqTypeSchema(raw)
  THEN Let(resolveGroqTypeSchema(raw), LAMBDA r :
         [threw |-> r.threw, value |-> r.value, schema |-> oldSchema])
  ELSE IF isSanitySchema(raw)
  THEN Let(resolveTypes(raw), LAMBDA r :
         [threw |-> r.threw, value |-> r.value, schema |-> raw])
  ELSE [threw |-> FALSE, value |-> << >>, schema |-> oldSchema]

(***************************************************************************)
(* Schema file texts the environment may put at the schema path.  Each     *)
(* text either fails JSON.parse or parses to the given value.              *)
(***************************************************************************)
Field(n, t) == JObj(<< Mem("name", JStr(n)), Mem("type", JStr(t)) >>)
RefField(n, to) ==
  JObj(<< Mem("name", JStr(n)), Mem("type", JStr("reference")), Mem("to", to) >>)
ArrayField(n, of) ==
  JObj(<< Mem("name", JStr(n)), Mem("type", JStr("array")), Mem("of", of) >>)
TypeRef(t) == JObj(<< Mem("type", JStr(t)) >>)
SType(n, t, fields) ==
  JObj(<< Mem("name", JStr(n)), Mem("type", JStr(t)), Mem("fields", JArr(fields)) >>)
SanityDoc(types) == JObj(<< Mem("types", JArr(types)) >>)
Attr(value) == JObj(<< Mem("type", JStr("objectAttribute")), Mem("value", value) >>)
GType(n, t, attrs) ==
  JObj(<< Mem("name", JStr(n)), Mem("type", JStr(t)), Mem("attributes", JObj(attrs)) >>)

AuthorType == SType("author", "document", << Field("name", "string") >>)
PostType ==
  SType("post", "document",
        << Field("title", "string"),
           RefField("author", JArr(<< TypeRef("author") >>)),
           ArrayField("tags", JArr(<< TypeRef("string") >>)) >>)
\* a reference whose "to" is a single object instead of an array
BrokenPostType ==
  SType("post", "document", << RefField("author", TypeRef("author")) >>)
\* the author type with one more level of nesting inside its field
DeepType ==
  SType("author", "document",
        << JObj(<< Mem("name", JStr("name")), Mem("type", JStr("string")),
                   Mem("options", JObj(<< Mem("list", JStr("names")) >>)) >>) >>)
\* a reference that also carries "of", and an array of references that
\* also carries "to", in the document-store shape
MixedType ==
  SType("post", "document",
        << JObj(<< Mem("name", JStr("author")), Mem("type", JStr("reference")),
                   Mem("to", JArr(<< TypeRef("author") >>)),
                   Mem("of", JArr(<< TypeRef("author") >>)) >>),
           JObj(<< Mem("name", JStr("authors")), Mem("type", JStr("array")),
                   Mem("of", JArr(<< JObj(<< Mem("type", JStr("reference")),
                                             Mem("to", JArr(<< TypeRef("author") >>)) >>) >>)),
                   Mem("to", JArr(<< TypeRef("author") >>)) >>) >>)
\* the same in the compiled query-type shape, with a reference that names
\* no target
GroqMixedType ==
  GType("post", "document",
        << Mem("author", Attr(JObj(<< Mem("type", JStr("reference")),
                                      Mem("to", JArr(<< TypeRef("author") >>)),
                                      Mem("of", TypeRef("author")) >>))),
           Mem("authors", Attr(JObj(<< Mem("type", JStr("array")),
                                       Mem("of", JObj(<< Mem("type", JStr("reference")),
                                                         Mem("to", JArr(<< TypeRef("author") >>)) >>)),
                                       Mem("to", JArr(<< TypeRef("author") >>)) >>))),
           Mem("editor", Attr(JObj(<< Mem("type", JStr("reference")) >>))) >>)
\* a second type as small as the author type
EditorType == SType("editor", "document", << Field("name", "string") >>)
\* the author type with one more field
WideType ==
  SType("author", "document",
        << Field("name", "string"), Field("email", "string") >>)
GroqPostType ==
  GType("post", "document",
        << Mem("title", Attr(JObj(<< Mem("type", JStr("string")) >>))),
           Mem("author", Attr(JObj(<< Mem("type", JStr("reference")),
                                      Mem("to", JArr(<< TypeRef("author") >>)) >>))) >>)

\* a document type declaring a field under a built-in name, followed by a
\* second type of the same name
ShadowType ==
  SType("page", "document", << Field("_id", "number"), Field("title", "string") >>)
ShadowAgain == SType("page", "object", << Field("body", "text") >>)

Unparsable == [parses |-> FALSE, value |-> JUndef]
Parses(v) == [parses |-> TRUE, value |-> v]

Texts ==
  << Unparsable,
     Parses(SanityDoc(<< AuthorType >>)),
     Parses(SanityDoc(<< PostType, AuthorType >>)),
     Parses(SanityDoc(<< JObj(<< Mem("type", JStr("document")) >>) >>)),
     Parses(JObj(<< Mem("randomKey", JStr("randomValue")) >>)),
     Parses(SanityDoc(<< AuthorType, BrokenPostType >>)),
     Parses(JArr(<< GroqPostType >>)),
     Parses(SanityDoc(<< JNull >>)),
     Parses(SanityDoc(<< ShadowType, ShadowAgain >>)),
     Parses(SanityDoc(
       << SType("post", "document",
                << Field("title", "string"),
                   RefField("author", JArr(<< TypeRef("author") >>)),
                   ArrayField("tags", JArr(<< TypeRef("string") >>)),
                   ArrayField("authors", JArr(<< TypeRef("author") >>)),
                   RefField("editor", JArr(<< TypeRef("person") >>)) >>),
          AuthorType >>)),
     Parses(JArr(<< >>)),
     Parses(JStr("just a string")),
     Parses(JObj(<< Mem("post", GroqPostType) >>)),
     Parses(JObj(<< Mem("types", JStr("post")) >>)),
     Parses(SanityDoc(<< DeepType >>)),
     Parses(SanityDoc(<< WideType >>)),
     Parses(JArr(<< AuthorType >>)),
     Parses(SanityDoc(<< AuthorType, EditorType >>)),
     Parses(SanityDoc(<< MixedType, AuthorType >>)),
     Parses(JArr(<< GroqMixedType >>)) >>

(***************************************************************************)
(* The document cache of the language service (server/DocumentCache.ts).   *)
(* A text document is [uri, version, text]; parsing keeps the text parsed  *)
(* and whether the previous tree of the entry was handed to the parser.    *)
(***************************************************************************)
DefaultMaxSize == 100

NewDocumentCache(maxSize) == [cache |-> << >>, maxSize |-> maxSize]

TextDocument(uri, version, text) ==
  [uri |-> uri, version |-> version, text |-> text]

parse(text, oldTree) ==
  [tree |-> [text |-> text, edited |-> oldTree # JUndef]]

MapDelete(m, key) == SelectSeq(m, LAMBDA e : e.key # key)

get(C, uri) == MapGet(C.cache, uri)
has(C, uri) == MapHas(C.cache, uri)
getSize(C) == Len(C.cache)
getAllUris(C) == [i \in 1..Len(C.cache) |-> C.cache[i].key]
getDocument(C, uri) ==
  IF has(C, uri) THEN get(C, uri).document ELSE JUndef

\* a variant that drops the entry added last
enforceMaxSizeNewest(C) ==
  IF Len(C.cache) > C.maxSize
  THEN Let(C.cache[Len(C.cache)].key, LAMBDA newestKey :
         IF newestKey # ""
         THEN [C EXCEPT !.cache = MapDelete(@, newestKey)]
         ELSE C)
  ELSE C
\* the first key of the Map is the oldest; an empty string is falsy
enforceMaxSize(C) ==
  IF Len(C.cache) > C.maxSize
  THEN Let(C.cache[1].key, LAMBDA oldestKey :
         IF oldestKey # ""
         THEN [C EXCEPT !.cache = MapDelete(@, oldestKey)]
         ELSE C)
  ELSE C

setDocument(C, document) ==
  Let(get(C, document.uri), LAMBDA existing :
  Let(IF existing # JUndef /\ existing.version < document.version
      THEN parse(document.text, existing.parseResult.tree)
      ELSE parse(document.text, JUndef), LAMBDA parseResult :
    [cache |-> enforceMaxSize(
        [C EXCEPT !.cache = MapSet(@, document.uri,
                                   [document |-> document,
                                    parseResult |-> parseResult,
                                    version |-> document.version])]),
     result |-> parseResult]))

deleteDocument(C, uri) ==
  [cache |-> [C EXCEPT !.cache = MapDelete(@, uri)], result |-> has(C, uri)]

(***************************************************************************)
(* State.                                                                  *)
(***************************************************************************)
VARIABLES
  file,     \* the file at the schema path: [st, text]
  cache,    \* the validation cache file of that path
  loaders,  \* loader id -> the fields of that SchemaLoader object
  calls,    \* loader id -> the loadFromPath call in flight or just returned
  repeat,   \* loader id -> the loads made since the path, the limits or the
            \* cache directory last changed
  ext,      \* the fields of the ExtensionRegistry object
  registry, \* the fields of the FunctionRegistry object
  out,      \* the last call made on either registry and what it returned
  documents \* the fields of the DocumentCache object

vars == << file, cache, loaders, calls, repeat, ext, registry, out,
          documents >>

SchemaPath == "/schema.json"

MissingFile == [st |-> "missing", text |-> 0]
UnreadableFile == [st |-> "unreadable", text |-> 0]
FileWith(t) == [st |-> "ok", text |-> t]

NoHash == << "none" >>
CacheFile(st, version, schemaHash, configHash, valid, error) ==
  [st |-> st, version |-> version, schemaHash |-> schemaHash,
   configHash |-> configHash, valid |-> valid, error |-> error]
NoCache == CacheFile("missing", 0, NoHash, NoHash, FALSE, NullMsg)
\* a file that exists but can be neither read nor written
LockedCache == CacheFile("locked", 0, NoHash, NoHash, FALSE, NullMsg)
\* a file whose content is not valid JSON (also: a file being written)
CorruptCache == CacheFile("corrupt", 0, NoHash, NoHash, FALSE, NullMsg)
\* the .cache directory does not exist and cannot be created: getCachePath
\* throws out of mkdirSync
NoCacheDir == CacheFile("nodir", 0, NoHash, NoHash, FALSE, NullMsg)

\* a file path as its directory and its file name
PathOf(dir, name) == [dir |-> dir, name |-> name]
\* the directory holding the compiled SchemaLoader (__dirname)
ServerDir == "/server/schema"
\* getCachePath: the first 16 hex digits of the SHA-256 of the schema path,
\* inside the .cache directory next to the server's own code
getCachePath(schemaPath) ==
  PathOf(ServerDir \o "/../.cache",
         "sha256(" \o schemaPath \o ")[0..16].groq-cache")
\* fs.existsSync: the loader's cache file is the only file of the model
\* besides the schema file, and it lies where getCachePath puts it
existsSync(p) ==
  \/ p = PathOf("", SubSeq(SchemaPath, 2, Len(SchemaPath))) /\ file.st /= "missing"
  \/ p = getCachePath(SchemaPath) /\ cache.st \notin {"missing", "nodir"}

\* { ...current, ...config }
Merge(current, config) ==
  [key \in DOMAIN current |->
     IF key \in DOMAIN config THEN config[key] ELSE current[key]]

NewLoader(validationConfig) ==
  [schema |-> JNull, rawSchema |-> JNull, resolvedTypes |-> << >>,
   schemaPath |-> "null",
   validationConfig |-> Merge(DEFAULT_VALIDATION_CONFIG, validationConfig),
   lastValidationError |-> NullMsg]

IdleCall ==
  [pc |-> "idle", text |-> 0, validation |-> Valid, hit |-> FALSE,
   seen |-> "none", ret |-> "none", cause |-> "none"]

NoRepeat == [n |-> 0, ret |-> "none", error |-> NullMsg]

(***************************************************************************)
(* Queries (pure reads of one loader object L).                            *)
(***************************************************************************)
getType(L, typeName) == MapGet(L.resolvedTypes, JStr(typeName))
getTypeNames(L) == [i \in 1..Len(L.resolvedTypes) |-> L.resolvedTypes[i].key]
getField(L, typeName, fieldName) ==
  IF ~MapHas(L.resolvedTypes, JStr(typeName)) THEN JUndef
  ELSE MapGet(getType(L, typeName).fields, JStr(fieldName))
\* the fields of a type in declaration order; none for an unknown type
\* (typeName is the name as a JSON string)
getFieldsForType(L, typeName) ==
  IF ~MapHas(L.resolvedTypes, typeName) THEN << >>
  ELSE Let(MapGet(L.resolvedTypes, typeName).fields, LAMBDA fields :
         [i \in 1..Len(fields) |-> fields[i].val])
isLoaded(L) == L.schema /= JNull \/ L.rawSchema /= JNull
getLastValidationError(L) == L.lastValidationError

(***************************************************************************)
(* loadFromPath.  The call is cut at its validation-cache file operations, *)
(* the only points where another process can act between two of its        *)
(* statements; W is the triple of loader object L, call frame F and cache  *)
(* file, and each step maps it to the triple it leaves.                    *)
(***************************************************************************)
SmallDepth == 5
SmallTypes == 1
SmallFields == 1
MaxRepeat == 3

computeHash(text) == << "sha256", text >>
\* computeConfigHash leaving maxTypes out of the hashed limits
computeConfigHashWithoutTypes(cfg) ==
  << "sha256", cfg.maxDepth, cfg.maxFieldsPerType >>
computeConfigHash(cfg) ==
  << "sha256", cfg.maxDepth, cfg.maxTypes, cfg.maxFieldsPerType >>

Miss == [hit |-> FALSE, valid |-> FALSE, error |-> NullMsg]
\* readValidationCache without the version comparison
readValidationCacheAnyVersion(c, schemaHash, configHash) ==
  IF /\ c.st = "record"
     /\ c.schemaHash = schemaHash
     /\ c.configHash = configHash
  THEN [hit |-> TRUE, valid |-> c.valid, error |-> c.error]
  ELSE [hit |-> FALSE, valid |-> FALSE, error |-> NullMsg]
\* readValidationCache without the config-hash comparison
readValidationCacheAnyConfig(c, schemaHash, configHash) ==
  IF /\ c.st = "record"
     /\ c.version = CACHE_VERSION
     /\ c.schemaHash = schemaHash
  THEN [hit |-> TRUE, valid |-> c.valid, error |-> c.error]
  ELSE [hit |-> FALSE, valid |-> FALSE, error |-> NullMsg]
readValidationCache(c, schemaHash, configHash) ==
  IF /\ c.st = "record"
     /\ c.version = CACHE_VERSION
     /\ c.schemaHash = schemaHash
     /\ c.configHash = configHash
  THEN [hit |-> TRUE, valid |-> c.valid, error |-> c.error]
  ELSE Miss

\* what a reader of the cache file finds, relative to the hashes it expects
CacheKind(c, schemaHash, configHash) ==
  IF c.st /= "record" THEN c.st
  ELSE IF c.version /= CACHE_VERSION THEN "version"
  ELSE IF c.schemaHash /= schemaHash \/ c.configHash /= configHash THEN "hash"
  ELSE "match"

CacheEntry(schemaHash, configHash, result) ==
  CacheFile("record", CACHE_VERSION, schemaHash, configHash,
            result.valid, result.error)

\* the catch block of loadFromPath, also the reset on a failed validation
Unload(L) ==
  [L EXCEPT !.schema = JNull, !.rawSchema = JNull, !.resolvedTypes = << >>]

Return(W, L, ret, cause) ==
  [L |-> L, cache |-> W.cache,
   F |-> [W.F EXCEPT !.pc = "returned", !.ret = ret, !.cause = cause]]

\* lines 269-273, and the catch block when resolution throws
ResolveAndReturn(W) ==
  Let(Texts[W.F.text].value, LAMBDA parsed :
    Let(resolveTypesFromRaw(parsed, W.L.schema), LAMBDA r :
      Let([W.L EXCEPT !.rawSchema = parsed, !.schemaPath = SchemaPath], LAMBDA L1 :
        IF r.threw THEN Return(W, Unload(L1), "false", "resolve-threw")
        ELSE Return(W, [L1 EXCEPT !.resolvedTypes = r.value, !.schema = r.schema],
                    "true", "ok"))))

\* lines 259-266
AfterValidation(W) ==
  LET validation == W.F.validation IN
  IF ~validation.valid
  THEN Return(W, [Unload(W.L) EXCEPT !.lastValidationError =
                     IF validation.error = NullMsg THEN DefaultFailedMsg
                     ELSE validation.error],
              "false", "validation")
  ELSE ResolveAndReturn(W)

\* line 253, then the cache write when caching is on
Validate(W) ==
  Let(Texts[W.F.text].value, LAMBDA parsed :
    Let(validateSchema(parsed, W.L.validationConfig), LAMBDA validation :
      Let([W EXCEPT !.F.validation = validation], LAMBDA W1 :
        IF validation.threw THEN Return(W, Unload(W.L), "false", "validation-threw")
        ELSE IF W.L.validationConfig.cacheValidation
        THEN [W1 EXCEPT !.F.pc = "writeOpen"]
        ELSE AfterValidation(W1))))

\* BeginStep emptying the schema model before the new file is validated
BeginStepClearsFirst(L, f, c) ==
  Let([Unload(L) EXCEPT !.lastValidationError = NullMsg], LAMBDA L1 :
    Let([L |-> L1, cache |-> c, F |-> IdleCall], LAMBDA W :
      IF f.st = "missing" THEN Return(W, L1, "false", "missing")
      ELSE IF f.st = "unreadable" THEN Return(W, L1, "false", "unreadable")
      ELSE IF ~Texts[f.text].parses THEN Return(W, L1, "false", "json")
      ELSE Let([W EXCEPT !.F.text = f.text], LAMBDA W1 :
             IF ~L1.validationConfig.enabled THEN ResolveAndReturn(W1)
             ELSE IF c.st = "nodir"
             THEN Return(W1, L1, "false", "cachedir")
             ELSE IF L1.validationConfig.cacheValidation
             THEN [W1 EXCEPT !.F.pc = "readCache"]
             ELSE Validate(W1))))

\* lines 225-237: reset of the error, read and parse of the schema file,
\* and the cache path (getCachePath creates the cache directory)
BeginStep(L, f, c) ==
  Let([L EXCEPT !.lastValidationError = NullMsg], LAMBDA L1 :
    Let([L |-> L1, cache |-> c, F |-> IdleCall], LAMBDA W :
      IF f.st = "missing" THEN Return(W, L1, "false", "missing")
      ELSE IF f.st = "unreadable" THEN Return(W, Unload(L1), "false", "unreadable")
      ELSE IF ~Texts[f.text].parses THEN Return(W, Unload(L1), "false", "json")
      ELSE Let([W EXCEPT !.F.text = f.text], LAMBDA W1 :
             IF ~L1.validationConfig.enabled THEN ResolveAndReturn(W1)
             ELSE IF c.st = "nodir"
             THEN Return(W1, Unload(L1), "false", "cachedir")
             ELSE IF L1.validationConfig.cacheValidation
             THEN [W1 EXCEPT !.F.pc = "readCache"]
             ELSE Validate(W1))))

\* ReadCacheStep writing the marked message back into the cache record
ReadCacheStepRewrites(W) ==
  LET schemaHash == computeHash(W.F.text)
      configHash == computeConfigHash(W.L.validationConfig)
  IN
  Let(readValidationCache(W.cache, schemaHash, configHash), LAMBDA cachedResult :
    Let([W EXCEPT !.F.seen = CacheKind(W.cache, schemaHash, configHash),
                  !.F.hit = cachedResult.hit], LAMBDA W1 :
      IF cachedResult.hit
      THEN IF ~cachedResult.valid
           THEN LET errorMsg == IF cachedResult.error = NullMsg
                                THEN DefaultFailedMsg ELSE cachedResult.error
                    marked == [errorMsg EXCEPT !.cached = @ + 1]
                IN Return([W1 EXCEPT !.cache.error = marked],
                          [Unload(W1.L) EXCEPT !.lastValidationError = marked],
                          "false", "cached")
           ELSE ResolveAndReturn(W1)
      ELSE Validate(W1)))

\* lines 239-251: the cache read and the cache-hit branch
ReadCacheStep(W) ==
  LET schemaHash == computeHash(W.F.text)
      configHash == computeConfigHash(W.L.validationConfig)
  IN
  Let(readValidationCache(W.cache, schemaHash, configHash), LAMBDA cachedResult :
    Let([W EXCEPT !.F.seen = CacheKind(W.cache, schemaHash, configHash),
                  !.F.hit = cachedResult.hit], LAMBDA W1 :
      IF cachedResult.hit
      THEN IF ~cachedResult.valid
           THEN LET errorMsg == IF cachedResult.error = NullMsg
                                THEN DefaultFailedMsg ELSE cachedResult.error
                IN Return(W1, [Unload(W1.L) EXCEPT !.lastValidationError =
                                  [errorMsg EXCEPT !.cached = @ + 1]],
                          "false", "cached")
           ELSE ResolveAndReturn(W1)
      ELSE Validate(W1)))

\* writeFileSync opens the cache file truncating it; a file that cannot be
\* opened makes it throw, which writeValidationCache swallows
WriteOpenStep(W) ==
  IF W.cache.st \in {"locked", "nodir"} THEN AfterValidation(W)
  ELSE [W EXCEPT !.cache = CorruptCache, !.F.pc = "writeClose"]

\* the record reaches the file; the call goes on with lines 259-273
WriteCloseStep(W) ==
  Let([W EXCEPT !.cache = CacheEntry(computeHash(W.F.text),
                                     computeConfigHash(W.L.validationConfig),
                                     W.F.validation)],
      LAMBDA W1 : AfterValidation(W1))

\* the whole call, as one loader runs it without interference
RunLoad(L, f, c) ==
  Let(BeginStep(L, f, c), LAMBDA a :
    Let(IF a.F.pc = "readCache" THEN ReadCacheStep(a) ELSE a, LAMBDA b :
      Let(IF b.F.pc = "writeOpen" THEN WriteOpenStep(b) ELSE b, LAMBDA w :
        IF w.F.pc = "writeClose" THEN WriteCloseStep(w) ELSE w)))

(***************************************************************************)
(* Actions.                                                                *)
(***************************************************************************)
\* the record of repeated loads after one more load has returned
NoteLoad(r, F, L) ==
  IF r.n = 0 THEN [n |-> 1, ret |-> F.ret, error |-> L.lastValidationError]
  ELSE [r EXCEPT !.n = IF @ < MaxRepeat THEN @ + 1 ELSE @]

Apply(l, W) ==
  /\ loaders' = [loaders EXCEPT ![l] = W.L]
  /\ calls' = [calls EXCEPT ![l] = W.F]
  /\ cache' = W.cache
  /\ repeat' = IF W.F.pc = "returned"
               THEN [repeat EXCEPT ![l] = NoteLoad(@, W.F, W.L)]
               ELSE repeat
  /\ UNCHANGED << file, ext, registry, out, documents >>

InFlight(l) == [L |-> loaders[l], cache |-> cache, F |-> calls[l]]

\* loadFromPath run from call to return with no other process in between
LoadFromPath(l) ==
  /\ calls[l].pc = "idle"
  /\ \E W \in {RunLoad(loaders[l], file, cache)} : Apply(l, W)

\* the same call, one file-system step at a time
BeginLoad(l) ==
  /\ calls[l].pc = "idle"
  /\ \E W \in {BeginStep(loaders[l], file, cache)} : Apply(l, W)

ReadCache(l) ==
  /\ calls[l].pc = "readCache"
  /\ \E W \in {ReadCacheStep(InFlight(l))} : Apply(l, W)

WriteOpen(l) ==
  /\ calls[l].pc = "writeOpen"
  /\ \E W \in {WriteOpenStep(InFlight(l))} : Apply(l, W)

WriteClose(l) ==
  /\ calls[l].pc = "writeClose"
  /\ \E W \in {WriteCloseStep(InFlight(l))} : Apply(l, W)

\* the caller's await resumes with the returned value
AwaitLoad(l) ==
  /\ calls[l].pc = "returned"
  /\ calls' = [calls EXCEPT ![l] = IdleCall]
  /\ UNCHANGED << file, cache, loaders, repeat, ext, registry, out, documents >>

\* updateValidationConfig also forgetting the last validation error
updateValidationConfigResets(l, config) ==
  /\ calls[l].pc = "idle"
  /\ Merge(loaders[l].validationConfig, config) /= loaders[l].validationConfig
  /\ loaders' = [loaders EXCEPT ![l].validationConfig = Merge(@, config),
                                ![l].lastValidationError = NullMsg]
  /\ repeat' = [repeat EXCEPT ![l] = NoRepeat]
  /\ UNCHANGED << file, cache, calls, ext, registry, out, documents >>

updateValidationConfig(l, config) ==
  /\ calls[l].pc = "idle"
  /\ Merge(loaders[l].validationConfig, config) /= loaders[l].validationConfig
  /\ loaders' = [loaders EXCEPT ![l].validationConfig = Merge(@, config)]
  /\ repeat' = [repeat EXCEPT ![l] = NoRepeat]
  /\ UNCHANGED << file, cache, calls, ext, registry, out, documents >>

clear(l) ==
  /\ calls[l].pc = "idle"
  /\ loaders' = [loaders EXCEPT ![l] =
                   [Unload(@) EXCEPT !.schemaPath = "null",
                                     !.lastValidationError = NullMsg]]
  /\ loaders' /= loaders
  /\ UNCHANGED << file, cache, calls, repeat, ext, registry, out, documents >>

\* clearValidationCache(schemaPath?): explicit tells whether a path is passed
clearValidationCache(l, explicit) ==
  /\ calls[l].pc = "idle"
  /\ explicit \/ loaders[l].schemaPath /= "null"
  /\ cache.st \notin {"missing", "nodir"}
  /\ cache' = NoCache
  /\ UNCHANGED << file, loaders, calls, repeat, ext, registry, out, documents >>

\* another program rewrites, removes or protects the schema file
EditFile(f) ==
  /\ f /= file
  /\ file' = f
  /\ repeat' = [l \in DOMAIN repeat |-> NoRepeat]
  /\ UNCHANGED << cache, loaders, calls, ext, registry, out, documents >>

\* another program damages the cache file: garbage content, no access
\* rights, a record of another format version, or no cache directory
TamperCache(kind) ==
  /\ \/ kind = "corrupt" /\ cache' = CorruptCache
     \/ kind = "locked" /\ cache' = LockedCache
     \/ kind = "nodir" /\ cache' = NoCacheDir
     \/ /\ kind = "version"
        /\ cache.st = "record"
        /\ cache' = [cache EXCEPT !.version = CACHE_VERSION + 1,
                                  !.valid = ~cache.valid,
                                  !.error = IF cache.valid THEN DefaultFailedMsg
                                            ELSE NullMsg]
  /\ cache' /= cache
  /\ repeat' = IF (cache.st = "nodir") /= (cache'.st = "nodir")
               THEN [l \in DOMAIN repeat |-> NoRepeat]
               ELSE repeat
  /\ UNCHANGED << file, loaders, calls, ext, registry, out, documents >>

PartialConfigs ==
  { [enabled |-> FALSE], [enabled |-> TRUE],
    [cacheValidation |-> FALSE], [cacheValidation |-> TRUE],
    [maxTypes |-> SmallTypes], [maxTypes |-> DefaultMaxTypes] }

\* updates of the three limits only
LimitConfigs ==
  { [maxDepth |-> SmallDepth], [maxDepth |-> DefaultMaxDepth],
    [maxTypes |-> SmallTypes], [maxTypes |-> DefaultMaxTypes],
    [maxFieldsPerType |-> SmallFields],
    [maxFieldsPerType |-> DefaultMaxFieldsPerType] }

Files == {MissingFile, UnreadableFile} \cup {FileWith(t) : t \in 1..8}
\* readable, parsable schema files of both shapes
LimitFiles == {FileWith(t) : t \in {2, 3, 6, 7, 9}}
ConcFiles == {FileWith(t) : t \in {2, 3, 6}}

(***************************************************************************)
(* The extension registry.  An extension is [id, hooks]; hooks maps the    *)
(* names of the hooks the extension implements to its hook functions.  The *)
(* registry keeps two Maps keyed by extension id, both in insertion order. *)
(***************************************************************************)
HookNames ==
  {"onFunctionExtracted", "getParameterType", "getDiagnostics",
   "getCompletions", "getHoverContent"}

\* the extension shipped with the server, an extension that answers one
\* type for every parameter, one without a parameter-type hook, and a
\* second object that claims the shipped extension's id
Extensions ==
  { [id |-> "paramTypeAnnotations",
     hooks |-> [onFunctionExtracted |-> "annotations.onFunctionExtracted",
                getParameterType |-> "annotations.getParameterType",
                getDiagnostics |-> "annotations.getDiagnostics",
                getHoverContent |-> "annotations.getHoverContent"]],
    [id |-> "pinned",
     hooks |-> [getParameterType |-> "pinned.getParameterType"]],
    [id |-> "linter",
     hooks |-> [getDiagnostics |-> "linter.getDiagnostics"]],
    [id |-> "paramTypeAnnotations",
     hooks |-> [getParameterType |-> "impostor.getParameterType"]] }
\* the options of a configuration that was given none
NoOptions == "undefined"

NewExtensionRegistry == [extensions |-> << >>, configs |-> << >>]

\* the outcome of the last call on the registry, and the calls that have
\* succeeded so far: the extensions registered, in order, and the ids whose
\* last enable or disable was an enable; for a call on a document, the
\* document, the other arguments and the value returned
NoCall == [op |-> "none", id |-> "", threw |-> FALSE,
           order |-> << >>, on |-> {},
           doc |-> 0, args |-> << >>, result |-> JNull]

registerOverwrites(e) ==
  /\ ext' = [extensions |-> MapSet(ext.extensions, e.id, e),
             configs |-> MapSet(ext.configs, e.id,
                                [enabled |-> FALSE, options |-> NoOptions])]
  /\ out' = [out EXCEPT !.op = "register", !.id = e.id, !.threw = FALSE,
                        !.order = Append(@, e)]
  /\ UNCHANGED << file, cache, loaders, calls, repeat, registry, documents >>
register(e) ==
  /\ IF MapHas(ext.extensions, e.id)
     THEN /\ out' = [out EXCEPT !.op = "register", !.id = e.id,
                                !.threw = TRUE]
          /\ ext' = ext
     ELSE /\ ext' = [extensions |-> MapSet(ext.extensions, e.id, e),
                     configs |-> MapSet(ext.configs, e.id,
                                        [enabled |-> FALSE,
                                         options |-> NoOptions])]
          /\ out' = [out EXCEPT !.op = "register", !.id = e.id,
                                !.threw = FALSE, !.order = Append(@, e)]
  /\ UNCHANGED << file, cache, loaders, calls, repeat, registry, documents >>

\* a variant that moves the extension enabled to the end of the Map
enableMovesLast(extensionId, options) ==
  /\ IF ~MapHas(ext.extensions, extensionId)
     THEN /\ out' = [out EXCEPT !.op = "enable", !.id = extensionId,
                                !.threw = TRUE]
          /\ ext' = ext
     ELSE /\ ext' =
               [extensions |->
                  Append(SelectSeq(ext.extensions,
                                   LAMBDA m : m.key /= extensionId),
                         Mem(extensionId,
                             MapGet(ext.extensions, extensionId))),
                configs |-> MapSet(ext.configs, extensionId,
                                   [enabled |-> TRUE, options |-> options])]
          /\ out' = [out EXCEPT !.op = "enable", !.id = extensionId,
                                !.threw = FALSE,
                                !.on = @ \cup {extensionId}]
  /\ UNCHANGED << file, cache, loaders, calls, repeat, registry, documents >>
enable(extensionId, options) ==
  /\ IF ~MapHas(ext.extensions, extensionId)
     THEN /\ out' = [out EXCEPT !.op = "enable", !.id = extensionId,
                                !.threw = TRUE]
          /\ ext' = ext
     ELSE /\ ext' = [ext EXCEPT
                       !.configs = MapSet(@, extensionId,
                                          [enabled |-> TRUE,
                                           options |-> options])]
          /\ out' = [out EXCEPT !.op = "enable", !.id = extensionId,
                                !.threw = FALSE,
                                !.on = @ \cup {extensionId}]
  /\ UNCHANGED << file, cache, loaders, calls, repeat, registry, documents >>

disable(extensionId) ==
  /\ ext' = IF MapHas(ext.configs, extensionId)
            THEN [ext EXCEPT
                    !.configs = MapSet(@, extensionId,
                                       [MapGet(@, extensionId)
                                          EXCEPT !.enabled = FALSE])]
            ELSE ext
  /\ out' = [out EXCEPT !.op = "disable", !.id = extensionId,
                        !.threw = FALSE, !.on = @ \ {extensionId}]
  /\ UNCHANGED << file, cache, loaders, calls, repeat, registry, documents >>

isEnabled(E, extensionId) ==
  /\ MapHas(E.configs, extensionId)
  /\ MapGet(E.configs, extensionId).enabled

\* Array.from(extensions.values()) filtered: registration order
getEnabledExtensions(E) ==
  SelectSeq([i \in 1..Len(E.extensions) |-> E.extensions[i].val],
            LAMBDA e : isEnabled(E, e.id))

\* a variant that hands the hooks out last registered first
getHookReversed(E, hookName) ==
  LET having == SelectSeq(getEnabledExtensions(E),
                          LAMBDA e : hookName \in DOMAIN e.hooks)
  IN [i \in 1..Len(having) |->
        [extension |-> having[Len(having) + 1 - i],
         hook |-> having[Len(having) + 1 - i].hooks[hookName]]]
\* the hook functions of one name, with the extensions they belong to
getHook(E, hookName) ==
  LET having == SelectSeq(getEnabledExtensions(E),
                          LAMBDA e : hookName \in DOMAIN e.hooks)
  IN [i \in 1..Len(having) |->
        [extension |-> having[i], hook |-> having[i].hooks[hookName]]]

(***************************************************************************)
(* Syntax trees.  A tree is the sequence of its nodes in document order    *)
(* (a node comes before its descendants); a node is [type, text, parent,   *)
(* field, named] with parent the index of its parent (0 for the root) and  *)
(* field the name of the field of the parent it fills ("" for none).  The  *)
(* null node is 0.                                                         *)
(***************************************************************************)
N(type, text, parent, field) ==
  [type |-> type, text |-> text, parent |-> parent, field |-> field,
   named |-> type /= text \/ type \in {"null", "true", "false"}]

\* node.childForFieldName(fieldName)
getFieldNode(tree, n, fieldName) ==
  Let(n, LAMBDA at :
    Let({i \in 1..Len(tree) :
           tree[i].parent = at /\ tree[i].field = fieldName}, LAMBDA c :
      IF c = {} THEN 0 ELSE CHOOSE i \in c : \A j \in c : i <= j))

RECURSIVE findAncestorOfType(_, _, _)
findAncestorOfType(tree, n, types) ==
  Let(tree[n].parent, LAMBDA parent :
    IF parent = 0 THEN 0
    ELSE IF tree[parent].type \in types THEN parent
    ELSE findAncestorOfType(tree, parent, types))

\* the nodes walkTree visits from n when the callback never stops it: n and
\* its descendants, in document order
walkTree(tree, n) ==
  Let(n, LAMBDA top :
    LET RECURSIVE Within(_)
        Within(i) ==
          \/ i = top
          \/ i > top /\ Let(tree[i].parent, LAMBDA parent :
                          parent /= 0 /\ Within(parent))
    IN SelectSeq([i \in 1..Len(tree) |-> i], Within))

(***************************************************************************)
(* Type inference over a tree and a schema loader.  A context is [type,    *)
(* field, isArray, documentTypes]; type names are the JSON strings of the  *)
(* schema.                                                                 *)
(***************************************************************************)
getDocumentTypeNames(L) ==
  Let(SelectSeq(L.resolvedTypes, LAMBDA m : m.val.isDocument), LAMBDA docs :
    [i \in 1..Len(docs) |-> docs[i].key])

\* x ?? null of a Map lookup
OrNull(v) == Let(v, LAMBDA x : IF x = JUndef THEN JNull ELSE x)

\* list?.length of a resolved field's referenceTargets or arrayOf
HasItems(list) == list.k = "array" /\ Len(list.items) > 0

\* for (const typeName of schemaLoader.getTypeNames()): the field of that
\* name of the first type that has one passing the test, else undefined
FindField(L, fieldName, Test(_)) ==
  Let({i \in 1..Len(L.resolvedTypes) :
         /\ MapHas(L.resolvedTypes[i].val.fields, JStr(fieldName))
         /\ Test(MapGet(L.resolvedTypes[i].val.fields, JStr(fieldName)))},
      LAMBDA hits :
    IF hits = {} THEN JUndef
    ELSE MapGet(L.resolvedTypes[CHOOSE i \in hits : \A j \in hits : i <= j]
                  .val.fields, JStr(fieldName)))

\* the first comparison _type == ... at or below node n, else 0
findTypeComparison(tree, n) ==
  LET isTypeComparison(c) ==
        /\ tree[c].type = "comparison_expression"
        /\ Let(getFieldNode(tree, c, "left"), LAMBDA left :
             /\ left /= 0
             /\ tree[left].type = "identifier"
             /\ tree[left].text = "_type")
        /\ Let(getFieldNode(tree, c, "operator"), LAMBDA operator :
             /\ operator /= 0
             /\ tree[operator].text = "==")
  IN Let(SelectSeq(walkTree(tree, n), isTypeComparison), LAMBDA found :
       IF found = << >> THEN 0 ELSE found[1])

\* the type name a comparison names, as a JSON string, or null
extractTypeName(tree, comparisonNode) ==
  Let(getFieldNode(tree, comparisonNode, "right"), LAMBDA rightNode :
    IF rightNode = 0 THEN JNull
    ELSE Let(tree[rightNode].text, LAMBDA text :
           IF /\ tree[rightNode].type = "string"
              /\ Len(text) >= 1
              /\ \E q \in {"\"", "'"} :
                   /\ SubSeq(text, 1, 1) = q
                   /\ SubSeq(text, Len(text), Len(text)) = q
           THEN JStr(SubSeq(text, 2, Len(text) - 1))
           ELSE JNull))

\* the type comparison in the index of a subscript node, else 0
FilterOf(tree, subscript) ==
  Let(getFieldNode(tree, subscript, "index"), LAMBDA index :
    IF index = 0 THEN 0 ELSE findTypeComparison(tree, index))

RECURSIVE findTypeFilter(_, _)
findTypeFilter(tree, current) ==
  Let(current, LAMBDA at :
    IF at = 0 THEN 0
    ELSE Let(IF tree[at].type = "subscript_expression"
             THEN FilterOf(tree, at) ELSE 0, LAMBDA here :
           IF here /= 0 THEN here
           ELSE Let(IF /\ tree[at].type = "projection"
                       /\ tree[at].parent /= 0
                       /\ tree[tree[at].parent].type = "projection_expression"
                    THEN Let(getFieldNode(tree, tree[at].parent, "base"),
                             LAMBDA base :
                           IF base /= 0
                              /\ tree[base].type = "subscript_expression"
                           THEN FilterOf(tree, base) ELSE 0)
                    ELSE 0, LAMBDA ofBase :
                  IF ofBase /= 0 THEN ofBase
                  ELSE findTypeFilter(tree, tree[at].parent))))

\* the schema type a field leads to when it is projected: the first target
\* of a reference, else the type the field names (null when the schema has
\* no such type); fields of plain type object lead nowhere
LeadsSomewhere(field) ==
  \/ field.isReference /\ HasItems(field.referenceTargets)
  \/ Truthy(field.type) /\ field.type /= JStr("object")
FieldTypeOf(L, field) ==
  IF field.isReference /\ HasItems(field.referenceTargets)
  THEN OrNull(MapGet(L.resolvedTypes, field.referenceTargets.items[1]))
  ELSE OrNull(MapGet(L.resolvedTypes, field.type))
IsArrayOfTypes(field) ==
  field /= JUndef /\ field.isArray /\ HasItems(field.arrayOf)

\* the type of the projection that encloses the projection expression
\* projExpr, or null; the loop climbs from the parent of projExpr and
\* returns at the first level that decides
RECURSIVE getParentTypeContext(_, _, _)
getParentTypeContext(tree, projExpr, L) ==
  LET TypeNamed(tc) ==
        Let(tc, LAMBDA comparison :
          IF comparison = 0 THEN JUndef
          ELSE Let(extractTypeName(tree, comparison), LAMBDA typeName :
                 IF typeName = JNull THEN JUndef
                 ELSE OrNull(MapGet(L.resolvedTypes, typeName))))
      \* the value returned at a projection whose expression has an
      \* identifier base, or undefined when the loop goes on
      ByField(parentProjExpr, fieldName) ==
        Let(getParentTypeContext(tree, parentProjExpr, L), LAMBDA grand :
          Let(IF grand = JNull THEN JUndef
              ELSE MapGet(grand.fields, JStr(fieldName)), LAMBDA field :
            IF field /= JUndef /\ LeadsSomewhere(field)
            THEN FieldTypeOf(L, field)
            ELSE Let(FindField(L, fieldName, LeadsSomewhere), LAMBDA other :
                   IF other /= JUndef THEN FieldTypeOf(L, other)
                   ELSE JUndef)))
      \* the same for a base that is a subscript expression
      BySubscript(parentProjExpr, baseNode) ==
        Let(TypeNamed(FilterOf(tree, baseNode)), LAMBDA named :
          IF named /= JUndef THEN named
          ELSE Let(getFieldNode(tree, baseNode, "base"), LAMBDA inner :
                 IF inner = 0 THEN JUndef
                 ELSE IF tree[inner].type /= "identifier" THEN JUndef
                 ELSE Let(tree[inner].text, LAMBDA fieldName :
                   Let(getParentTypeContext(tree, parentProjExpr, L),
                       LAMBDA grand :
                     Let(IF grand = JNull THEN JUndef
                         ELSE MapGet(grand.fields, JStr(fieldName)),
                         LAMBDA field :
                       IF IsArrayOfTypes(field)
                       THEN OrNull(MapGet(L.resolvedTypes,
                                          field.arrayOf.items[1]))
                       ELSE Let(FindField(L, fieldName, IsArrayOfTypes),
                                LAMBDA other :
                              IF other /= JUndef
                              THEN OrNull(MapGet(L.resolvedTypes,
                                                 other.arrayOf.items[1]))
                              ELSE JUndef))))))
      AtProjection(current) ==
        IF tree[current].type /= "projection" THEN JUndef
        ELSE IF tree[current].parent = 0 THEN JUndef
        ELSE IF tree[tree[current].parent].type /= "projection_expression"
        THEN JUndef
        ELSE Let(getFieldNode(tree, tree[current].parent, "base"),
                 LAMBDA baseNode :
               IF baseNode = 0 THEN JUndef
               ELSE IF tree[baseNode].type = "identifier"
               THEN ByField(tree[current].parent, tree[baseNode].text)
               ELSE IF tree[baseNode].type = "subscript_expression"
               THEN BySubscript(tree[current].parent, baseNode)
               ELSE JUndef)
      RECURSIVE Climb(_)
      Climb(current) ==
        IF current = 0 THEN JNull
        ELSE Let(AtProjection(current), LAMBDA here :
               IF here /= JUndef THEN here
               ELSE Let(IF tree[current].type = "subscript_expression"
                        THEN TypeNamed(FilterOf(tree, current))
                        ELSE JUndef, LAMBDA named :
                      IF named /= JUndef THEN named
                      ELSE Let(tree[current].parent, LAMBDA parent :
                             Climb(parent))))
  IN Let(tree[projExpr].parent, LAMBDA parent : Climb(parent))

\* inferNestedFieldType staying on the enclosing type when the schema lacks
\* the type the field leads to
inferNestedFieldTypeStaysOnParent(tree, node, L) ==
  Let(IF tree[node].type = "projection" THEN node
      ELSE findAncestorOfType(tree, node, {"projection"}),
      LAMBDA projection :
    IF projection = 0 THEN JNull
    ELSE Let(tree[projection].parent, LAMBDA projExpr :
      IF projExpr = 0 THEN JNull
      ELSE IF tree[projExpr].type /= "projection_expression" THEN JNull
      ELSE Let(getFieldNode(tree, projExpr, "base"), LAMBDA baseNode :
        IF baseNode = 0 THEN JNull
        ELSE IF tree[baseNode].type /= "identifier" THEN JNull
        ELSE Let(getParentTypeContext(tree, projExpr, L),
                 LAMBDA parentContext :
          IF parentContext = JNull THEN JNull
          ELSE Let(MapGet(parentContext.fields, JStr(tree[baseNode].text)),
                   LAMBDA field :
                 IF field = JUndef THEN JNull
                 ELSE IF LeadsSomewhere(field)
                 THEN Let(FieldTypeOf(L, field), LAMBDA target :
                        IF target = JNull THEN parentContext ELSE target)
                 ELSE JNull)))))
\* the type of the field whose projection the node is in (video { ... })
inferNestedFieldType(tree, node, L) ==
  Let(IF tree[node].type = "projection" THEN node
      ELSE findAncestorOfType(tree, node, {"projection"}),
      LAMBDA projection :
    IF projection = 0 THEN JNull
    ELSE Let(tree[projection].parent, LAMBDA projExpr :
      IF projExpr = 0 THEN JNull
      ELSE IF tree[projExpr].type /= "projection_expression" THEN JNull
      ELSE Let(getFieldNode(tree, projExpr, "base"), LAMBDA baseNode :
        IF baseNode = 0 THEN JNull
        ELSE IF tree[baseNode].type /= "identifier" THEN JNull
        ELSE Let(getParentTypeContext(tree, projExpr, L),
                 LAMBDA parentContext :
          IF parentContext = JNull THEN JNull
          ELSE Let(MapGet(parentContext.fields, JStr(tree[baseNode].text)),
                   LAMBDA field :
                 IF field = JUndef THEN JNull
                 ELSE IF LeadsSomewhere(field) THEN FieldTypeOf(L, field)
                 ELSE JNull)))))

\* the item type of the array field whose projection the node is in
\* (fieldName[] { ... })
inferArrayFieldType(tree, node, L) ==
  LET Leads(field) ==
        /\ IsArrayOfTypes(field)
        /\ MapHas(L.resolvedTypes, field.arrayOf.items[1])
  IN Let(findAncestorOfType(tree, node, {"projection"}), LAMBDA projection :
    IF projection = 0 THEN JNull
    ELSE Let(tree[projection].parent, LAMBDA projExpr :
      IF projExpr = 0 THEN JNull
      ELSE IF tree[projExpr].type /= "projection_expression" THEN JNull
      ELSE Let({i \in 1..Len(tree) :
                  /\ tree[i].parent = projExpr
                  /\ tree[i].type = "subscript_expression"},
               LAMBDA subscripts :
        IF subscripts = {} THEN JNull
        ELSE Let(CHOOSE i \in subscripts : \A j \in subscripts : i <= j,
                 LAMBDA subscriptExpr :
          Let(getFieldNode(tree, subscriptExpr, "base"), LAMBDA baseNode :
            IF baseNode = 0 THEN JNull
            ELSE IF tree[baseNode].type /= "identifier" THEN JNull
            ELSE Let(findTypeFilter(tree, subscriptExpr), LAMBDA filter :
              Let(IF filter = 0 THEN JNull
                  ELSE extractTypeName(tree, filter), LAMBDA typeName :
                Let(IF typeName /= JNull
                    THEN Let(MapGet(L.resolvedTypes, typeName), LAMBDA t :
                           IF t = JUndef THEN JUndef
                           ELSE Let(MapGet(t.fields,
                                           JStr(tree[baseNode].text)),
                                    LAMBDA own :
                                  IF Leads(own) THEN own ELSE JUndef))
                    ELSE FindField(L, tree[baseNode].text, Leads),
                    LAMBDA field :
                  IF field = JUndef THEN JNull
                  ELSE MapGet(L.resolvedTypes,
                              field.arrayOf.items[1])))))))))

\* the last pass: the field a member access names, and array-ness
finalizeContext(tree, node, L, context, arrayBases) ==
  Let(context, LAMBDA given :
    Let(findAncestorOfType(tree, node,
          {"access_expression", "dereference_expression"}),
        LAMBDA accessExpr :
      Let(IF accessExpr = 0 THEN 0
          ELSE getFieldNode(tree, accessExpr, "member"), LAMBDA memberNode :
        Let(findAncestorOfType(tree, node, {"subscript_expression"}),
            LAMBDA subscriptExpr :
          Let(IF subscriptExpr = 0 THEN 0
              ELSE getFieldNode(tree, subscriptExpr, "base"),
              LAMBDA baseNode :
            [given EXCEPT
               !.field = IF accessExpr /= 0 /\ given.type /= JNull
                            /\ memberNode /= 0
                         THEN OrNull(MapGet(given.type.fields,
                                            JStr(tree[memberNode].text)))
                         ELSE @,
               !.isArray = IF subscriptExpr /= 0 /\ baseNode /= 0
                              /\ tree[baseNode].type \in arrayBases
                           THEN TRUE ELSE @])))))

inferTypeContextKeepsFilterName(tree, node, L) ==
  Let(inferNestedFieldType(tree, node, L), LAMBDA nestedFieldType :
    IF nestedFieldType /= JNull
    THEN finalizeContext(tree, node, L,
           [type |-> nestedFieldType, field |-> JNull, isArray |-> FALSE,
            documentTypes |-> << nestedFieldType.name >>], {"everything"})
    ELSE Let(inferArrayFieldType(tree, node, L), LAMBDA arrayFieldType :
      IF arrayFieldType /= JNull
      THEN finalizeContext(tree, node, L,
             [type |-> arrayFieldType, field |-> JNull, isArray |-> TRUE,
              documentTypes |-> << arrayFieldType.name >>], {"everything"})
      ELSE Let(findTypeFilter(tree, node), LAMBDA typeFilter :
        Let(IF typeFilter = 0 THEN JNull
            ELSE extractTypeName(tree, typeFilter), LAMBDA typeName :
          Let(IF typeName = JNull THEN JNull
              ELSE OrNull(MapGet(L.resolvedTypes, typeName)), LAMBDA named :
            finalizeContext(tree, node, L,
              [type |-> named, field |-> JNull, isArray |-> FALSE,
               documentTypes |-> IF typeName /= JNull THEN << typeName >>
                                 ELSE getDocumentTypeNames(L)],
              {"everything"}))))))
\* general structural inference: nested field projection, array field
\* projection, then the _type filter in scope
inferTypeContext(tree, node, L) ==
  Let(inferNestedFieldType(tree, node, L), LAMBDA nestedFieldType :
    IF nestedFieldType /= JNull
    THEN finalizeContext(tree, node, L,
           [type |-> nestedFieldType, field |-> JNull, isArray |-> FALSE,
            documentTypes |-> << nestedFieldType.name >>], {"everything"})
    ELSE Let(inferArrayFieldType(tree, node, L), LAMBDA arrayFieldType :
      IF arrayFieldType /= JNull
      THEN finalizeContext(tree, node, L,
             [type |-> arrayFieldType, field |-> JNull, isArray |-> TRUE,
              documentTypes |-> << arrayFieldType.name >>], {"everything"})
      ELSE Let(findTypeFilter(tree, node), LAMBDA typeFilter :
        Let(IF typeFilter = 0 THEN JNull
            ELSE extractTypeName(tree, typeFilter), LAMBDA typeName :
          Let(IF typeName = JNull THEN JNull
              ELSE OrNull(MapGet(L.resolvedTypes, typeName)), LAMBDA named :
            finalizeContext(tree, node, L,
              [type |-> named, field |-> JNull, isArray |-> FALSE,
               documentTypes |-> IF named /= JNull THEN << typeName >>
                                 ELSE getDocumentTypeNames(L)],
              {"everything"}))))))

\* the fields of all target types of a reference field, the first of each
\* name
getReferenceTargetFields(field, L) ==
  LET RECURSIVE Targets(_, _)
      Targets(allFields, k) ==
        IF k > Len(field.referenceTargets.items) THEN allFields
        ELSE Let(getFieldsForType(L, field.referenceTargets.items[k]),
                 LAMBDA fields :
               Let(allFields \o SelectSeq(fields, LAMBDA f :
                     \A j \in 1..Len(allFields) : allFields[j].name /= f.name),
                   LAMBDA next : Targets(next, k + 1)))
  IN IF ~field.isReference \/ ~IsArray(field.referenceTargets) THEN << >>
     ELSE Targets(<< >>, 1)

(***************************************************************************)
(* The function registry.  definitions and callSites are Maps keyed by     *)
(* function name; a parameter's inferredTypes is a Set, kept as the        *)
(* sequence of its members in insertion order.  The raw source is          *)
(* represented by its // @param comments: [at, type, param] for a comment  *)
(* in the comment block right before the function definition at node at.   *)
(***************************************************************************)
NewFunctionRegistry ==
  [definitions |-> << >>, callSites |-> << >>, visitedFunctions |-> {},
   rawSource |-> << >>]

\* set.add(t) for every t of types
RECURSIVE AddAll(_, _, _)
AddAll(set, types, i) ==
  IF i > Len(types) THEN set
  ELSE Let(IF \E j \in 1..Len(set) : set[j] = types[i] THEN set
           ELSE Append(set, types[i]), LAMBDA added :
         AddAll(added, types, i + 1))

\* the declared type of a parameter of the function at node funcStart
extractParamTypeAnnotations(rawSource, funcStart, paramName) ==
  LET block == SelectSeq(rawSource,
                         LAMBDA a : a.at = funcStart /\ a.param = paramName)
  IN IF block = << >> THEN JNull ELSE JStr(block[Len(block)].type)

extractFunctionDefinitions(definitions, tree, rawSource) ==
  LET Extracted(node) ==
        /\ tree[node].type = "function_definition"
        /\ getFieldNode(tree, node, "name") /= 0
        /\ getFieldNode(tree, node, "body") /= 0
      ParamsOf(node) ==
        Let({i \in 1..Len(tree) : /\ tree[i].parent = node
                                  /\ tree[i].type = "parameter_list"},
            LAMBDA lists :
          IF lists = {} THEN << >>
          ELSE Let(CHOOSE i \in lists : \A j \in lists : i <= j,
                   LAMBDA paramListNode :
                 Let(SelectSeq([i \in 1..Len(tree) |-> i],
                               LAMBDA i : /\ tree[i].parent = paramListNode
                                          /\ tree[i].type = "variable"),
                     LAMBDA variables :
                   [k \in 1..Len(variables) |->
                      [name |-> tree[variables[k]].text,
                       inferredTypes |-> << >>,
                       declaredType |->
                         extractParamTypeAnnotations(
                           rawSource, node, tree[variables[k]].text)]])))
      RECURSIVE Loop(_, _, _)
      Loop(defs, found, k) ==
        IF k > Len(found) THEN defs
        ELSE Let(getFieldNode(tree, found[k], "name"), LAMBDA nameNode :
               Let(MapSet(defs, tree[nameNode].text,
                          [name |-> tree[nameNode].text,
                           nameNode |-> nameNode,
                           parameters |-> ParamsOf(found[k]),
                           bodyNode |-> getFieldNode(tree, found[k], "body")]),
                   LAMBDA next : Loop(next, found, k + 1)))
  IN Let(definitions, LAMBDA defs :
       Let(SelectSeq(walkTree(tree, 1), Extracted), LAMBDA found :
         Loop(defs, found, 1)))

\* inferArgumentType scanning the other types only when the context has
\* no type
inferArgumentTypePinnedOnly(tree, argNode, L) ==
  LET Yields(field) ==
        \/ field.isArray /\ HasItems(field.arrayOf)
        \/ field.isReference /\ HasItems(field.referenceTargets)
        \/ field.type /= JStr("object")
      TypesOf(field) ==
        IF field.isArray /\ HasItems(field.arrayOf) THEN field.arrayOf
        ELSE IF field.isReference /\ HasItems(field.referenceTargets)
        THEN field.referenceTargets
        ELSE JArr(<< field.type >>)
      OfContext(fieldName) ==
        Let(inferTypeContext(tree, argNode, L), LAMBDA context :
          IF context.type = JNull THEN JUndef
          ELSE MapGet(context.type.fields, JStr(fieldName)))
  IN IF ~isLoaded(L) THEN JNull
     ELSE IF tree[argNode].type = "identifier"
     THEN Let(OfContext(tree[argNode].text), LAMBDA field :
            IF field /= JUndef /\ Yields(field) THEN TypesOf(field)
            ELSE IF inferTypeContext(tree, argNode, L).type /= JNull THEN JNull
            ELSE Let(FindField(L, tree[argNode].text, Yields), LAMBDA other :
                   IF other /= JUndef THEN TypesOf(other) ELSE JNull))
     ELSE IF tree[argNode].type = "subscript_expression"
     THEN Let(getFieldNode(tree, argNode, "base"), LAMBDA baseNode :
            IF baseNode = 0 THEN JNull
            ELSE IF tree[baseNode].type /= "identifier" THEN JNull
            ELSE Let(OfContext(tree[baseNode].text), LAMBDA field :
                   IF IsArrayOfTypes(field) THEN field.arrayOf
                   ELSE Let(FindField(L, tree[baseNode].text, IsArrayOfTypes),
                            LAMBDA other :
                          IF other /= JUndef THEN other.arrayOf
                          ELSE JNull)))
     ELSE IF tree[argNode].type \in {"access_expression",
                                     "dereference_expression"}
     THEN Let(inferTypeContext(tree, argNode, L), LAMBDA context :
            IF context.type /= JNull THEN JArr(<< context.type.name >>)
            ELSE JNull)
     ELSE JNull
\* the type names an argument of a call contributes, as an array, or null
inferArgumentType(tree, argNode, L) ==
  LET Yields(field) ==
        \/ field.isArray /\ HasItems(field.arrayOf)
        \/ field.isReference /\ HasItems(field.referenceTargets)
        \/ field.type /= JStr("object")
      TypesOf(field) ==
        IF field.isArray /\ HasItems(field.arrayOf) THEN field.arrayOf
        ELSE IF field.isReference /\ HasItems(field.referenceTargets)
        THEN field.referenceTargets
        ELSE JArr(<< field.type >>)
      OfContext(fieldName) ==
        Let(inferTypeContext(tree, argNode, L), LAMBDA context :
          IF context.type = JNull THEN JUndef
          ELSE MapGet(context.type.fields, JStr(fieldName)))
  IN IF ~isLoaded(L) THEN JNull
     ELSE IF tree[argNode].type = "identifier"
     THEN Let(OfContext(tree[argNode].text), LAMBDA field :
            IF field /= JUndef /\ Yields(field) THEN TypesOf(field)
            ELSE Let(FindField(L, tree[argNode].text, Yields), LAMBDA other :
                   IF other /= JUndef THEN TypesOf(other) ELSE JNull))
     ELSE IF tree[argNode].type = "subscript_expression"
     THEN Let(getFieldNode(tree, argNode, "base"), LAMBDA baseNode :
            IF baseNode = 0 THEN JNull
            ELSE IF tree[baseNode].type /= "identifier" THEN JNull
            ELSE Let(OfContext(tree[baseNode].text), LAMBDA field :
                   IF IsArrayOfTypes(field) THEN field.arrayOf
                   ELSE Let(FindField(L, tree[baseNode].text, IsArrayOfTypes),
                            LAMBDA other :
                          IF other /= JUndef THEN other.arrayOf
                          ELSE JNull)))
     ELSE IF tree[argNode].type \in {"access_expression",
                                     "dereference_expression"}
     THEN Let(inferTypeContext(tree, argNode, L), LAMBDA context :
            IF context.type /= JNull THEN JArr(<< context.type.name >>)
            ELSE JNull)
     ELSE JNull

\* extractCallSites recording a call only when the definition of its
\* callee stands before it in the text
extractCallSitesDefinedBefore(callSites, definitions, tree, L) ==
  LET Recorded(node) ==
        /\ tree[node].type = "function_call"
        /\ Let(getFieldNode(tree, node, "name"), LAMBDA nameNode :
             /\ nameNode /= 0
             /\ MapHas(definitions, tree[nameNode].text)
             /\ MapGet(definitions, tree[nameNode].text).nameNode < node)
      ArgsOf(node) ==
        Let(getFieldNode(tree, node, "name"), LAMBDA nameNode :
          SelectSeq([i \in 1..Len(tree) |-> i],
                    LAMBDA i : /\ tree[i].parent = node
                               /\ tree[i].named
                               /\ i /= nameNode))
      InfoOf(node) ==
        Let(ArgsOf(node), LAMBDA args :
          [functionName |-> tree[getFieldNode(tree, node, "name")].text,
           argumentTypes |-> [k \in 1..Len(args) |->
                                inferArgumentType(tree, args[k], L)],
           callNode |-> node])
      RECURSIVE Loop(_, _, _)
      Loop(sites, found, k) ==
        IF k > Len(found) THEN sites
        ELSE Let(InfoOf(found[k]), LAMBDA callInfo :
               Let(MapSet(sites, callInfo.functionName,
                          Append(IF MapHas(sites, callInfo.functionName)
                                 THEN MapGet(sites, callInfo.functionName)
                                 ELSE << >>,
                                 callInfo)),
                   LAMBDA next : Loop(next, found, k + 1)))
  IN Let(callSites, LAMBDA sites :
       Let(SelectSeq(walkTree(tree, 1), Recorded), LAMBDA found :
         Loop(sites, found, 1)))
extractCallSites(callSites, definitions, tree, L) ==
  LET Recorded(node) ==
        /\ tree[node].type = "function_call"
        /\ Let(getFieldNode(tree, node, "name"), LAMBDA nameNode :
             /\ nameNode /= 0
             /\ MapHas(definitions, tree[nameNode].text))
      ArgsOf(node) ==
        Let(getFieldNode(tree, node, "name"), LAMBDA nameNode :
          SelectSeq([i \in 1..Len(tree) |-> i],
                    LAMBDA i : /\ tree[i].parent = node
                               /\ tree[i].named
                               /\ i /= nameNode))
      InfoOf(node) ==
        Let(ArgsOf(node), LAMBDA args :
          [functionName |-> tree[getFieldNode(tree, node, "name")].text,
           argumentTypes |-> [k \in 1..Len(args) |->
                                inferArgumentType(tree, args[k], L)],
           callNode |-> node])
      RECURSIVE Loop(_, _, _)
      Loop(sites, found, k) ==
        IF k > Len(found) THEN sites
        ELSE Let(InfoOf(found[k]), LAMBDA callInfo :
               Let(MapSet(sites, callInfo.functionName,
                          Append(IF MapHas(sites, callInfo.functionName)
                                 THEN MapGet(sites, callInfo.functionName)
                                 ELSE << >>,
                                 callInfo)),
                   LAMBDA next : Loop(next, found, k + 1)))
  IN Let(callSites, LAMBDA sites :
       Let(SelectSeq(walkTree(tree, 1), Recorded), LAMBDA found :
         Loop(sites, found, 1)))

\* a variant in which each call site replaces what the earlier ones gave
propagateTypesLastSite(definitions, callSites) ==
  LET RECURSIVE Sites(_, _, _)
      Sites(params, sites, k) ==
        IF k > Len(sites) THEN params
        ELSE Let([i \in 1..Len(params) |->
                    IF i <= Len(sites[k].argumentTypes)
                       /\ sites[k].argumentTypes[i] /= JNull
                    THEN [params[i] EXCEPT
                            !.inferredTypes =
                              AddAll(<< >>, sites[k].argumentTypes[i].items, 1)]
                    ELSE params[i]], LAMBDA next :
               Sites(next, sites, k + 1))
  IN [d \in 1..Len(definitions) |->
        IF MapHas(callSites, definitions[d].key)
        THEN Mem(definitions[d].key,
                 [definitions[d].val EXCEPT
                    !.parameters =
                      Let(MapGet(callSites, definitions[d].key), LAMBDA sites :
                        Sites(definitions[d].val.parameters, sites, 1))])
        ELSE definitions[d]]
\* every call site's argument types are added to the parameter of the same
\* position
propagateTypes(definitions, callSites) ==
  LET RECURSIVE Sites(_, _, _)
      Sites(params, sites, k) ==
        IF k > Len(sites) THEN params
        ELSE Let([i \in 1..Len(params) |->
                    IF i <= Len(sites[k].argumentTypes)
                       /\ sites[k].argumentTypes[i] /= JNull
                    THEN [params[i] EXCEPT
                            !.inferredTypes =
                              AddAll(@, sites[k].argumentTypes[i].items, 1)]
                    ELSE params[i]], LAMBDA next :
               Sites(next, sites, k + 1))
  IN [d \in 1..Len(definitions) |->
        IF MapHas(callSites, definitions[d].key)
        THEN Mem(definitions[d].key,
                 [definitions[d].val EXCEPT
                    !.parameters =
                      Let(MapGet(callSites, definitions[d].key), LAMBDA sites :
                        Sites(definitions[d].val.parameters, sites, 1))])
        ELSE definitions[d]]

\* a variant that does not clear the registry first
extractFromASTKeeps(R, tree, L, rawSource) ==
  Let(extractFunctionDefinitions(R.definitions, tree, rawSource),
      LAMBDA definitions :
    Let(extractCallSites(R.callSites, definitions, tree, L),
        LAMBDA callSites :
      [definitions |-> propagateTypes(definitions, callSites),
       callSites |-> callSites,
       visitedFunctions |-> R.visitedFunctions,
       rawSource |-> rawSource]))
\* clear(), then definitions, call sites and propagation
extractFromAST(R, tree, L, rawSource) ==
  Let([R EXCEPT !.definitions = << >>, !.callSites = << >>,
                !.visitedFunctions = {}], LAMBDA cleared :
    Let(extractFunctionDefinitions(cleared.definitions, tree, rawSource),
        LAMBDA definitions :
      Let(extractCallSites(cleared.callSites, definitions, tree, L),
          LAMBDA callSites :
        [definitions |-> propagateTypes(definitions, callSites),
         callSites |-> callSites,
         visitedFunctions |-> cleared.visitedFunctions,
         rawSource |-> rawSource])))

getInferredParameterType(R, funcName, paramIndex) ==
  IF ~MapHas(R.definitions, funcName) THEN << >>
  ELSE IF paramIndex >= Len(MapGet(R.definitions, funcName).parameters)
  THEN << >>
  ELSE MapGet(R.definitions, funcName).parameters[paramIndex + 1].inferredTypes

getCallSites(R, funcName) ==
  IF MapHas(R.callSites, funcName) THEN MapGet(R.callSites, funcName)
  ELSE << >>

\* the definition of the function whose definition node encloses the node
isInsideFunctionBody(R, tree, node) ==
  Let(findAncestorOfType(tree, node, {"function_definition"}),
      LAMBDA funcDef :
    IF funcDef = 0 THEN JNull
    ELSE Let(getFieldNode(tree, funcDef, "name"), LAMBDA nameNode :
           IF nameNode = 0 THEN JNull
           ELSE OrNull(MapGet(R.definitions, tree[nameNode].text))))

(***************************************************************************)
(* The type context resolver.  The source text is the sequence of its      *)
(* lexical tokens, [k, t] with k one of "word", "quoted" (t the text       *)
(* between the quotes) and "punct"; a position is the number of tokens in  *)
(* front of the cursor.  NoPosition stands for an absent position, the     *)
(* empty sequence for an absent or empty source.                           *)
(***************************************************************************)
NoPosition == -1

\* the context of the first  word[]{ ...  that is still open at the cursor,
\* else of the first  _type == "word"  in front of it
inferTypeContextFromText(source, position, L) ==
  LET text == SubSeq(source, 1, position)
      Is(i, k, t) == i <= Len(text) /\ text[i].k = k /\ text[i].t = t
      arrayFieldMatches ==
        {i \in 1..Len(text) :
           /\ text[i].k = "word"
           /\ Is(i + 1, "punct", "[") /\ Is(i + 2, "punct", "]")
           /\ Is(i + 3, "punct", "{")
           /\ \A j \in (i + 4)..Len(text) : ~Is(j, "punct", "}")}
      typeMatches ==
        {i \in 1..Len(text) :
           /\ Is(i, "word", "_type") /\ Is(i + 1, "punct", "==")
           /\ i + 2 <= Len(text) /\ text[i + 2].k = "quoted"}
      First(S) == CHOOSE i \in S : \A j \in S : i <= j
      \* findArrayItemType
      itemField ==
        IF arrayFieldMatches = {} THEN JUndef
        ELSE FindField(L, text[First(arrayFieldMatches)].t,
                       LAMBDA field :
                         /\ IsArrayOfTypes(field)
                         /\ MapHas(L.resolvedTypes, field.arrayOf.items[1]))
      typeName == JStr(text[First(typeMatches) + 2].t)
  IN IF itemField /= JUndef
     THEN [type |-> MapGet(L.resolvedTypes, itemField.arrayOf.items[1]),
           field |-> JNull, isArray |-> TRUE,
           documentTypes |->
             << MapGet(L.resolvedTypes, itemField.arrayOf.items[1]).name >>]
     ELSE IF typeMatches /= {} /\ MapHas(L.resolvedTypes, typeName)
     THEN [type |-> MapGet(L.resolvedTypes, typeName), field |-> JNull,
           isArray |-> FALSE, documentTypes |-> << typeName >>]
     ELSE [type |-> JNull, field |-> JNull, isArray |-> FALSE,
           documentTypes |-> getDocumentTypeNames(L)]

\* the context of a node in the body of functionDef: the first inferred
\* type of the parameter the node, or its access or subscript base, names;
\* parameters are counted from 0 and -1 stands for no parameter
inferTypeContextInFunctionBody(tree, node, functionDef, R, L) ==
  LET findParameterByName(name) ==
        Let({i \in 1..Len(functionDef.parameters) :
               functionDef.parameters[i].name = name}, LAMBDA hits :
          IF hits = {} THEN -1
          ELSE (CHOOSE i \in hits : \A j \in hits : i <= j) - 1)
      BaseParameter(n) ==
        Let(getFieldNode(tree, n, "base"), LAMBDA baseNode :
          IF baseNode = 0 THEN -1
          ELSE IF tree[baseNode].type /= "variable" THEN -1
          ELSE findParameterByName(tree[baseNode].text))
      RECURSIVE findParameterVariable(_)
      findParameterVariable(current) ==
        IF current = 0 THEN -1
        ELSE Let(IF tree[current].type = "variable"
                 THEN findParameterByName(tree[current].text)
                 ELSE -1, LAMBDA own :
               IF own /= -1 THEN own
               ELSE Let(IF tree[current].type \in {"subscript_expression",
                                                   "access_expression"}
                        THEN BaseParameter(current) ELSE -1, LAMBDA ofBase :
                      IF ofBase /= -1 THEN ofBase
                      ELSE Let(tree[current].parent, LAMBDA parent :
                             findParameterVariable(parent))))
      TypesOf(index) ==
        IF index = -1 THEN << >>
        ELSE getInferredParameterType(R, functionDef.name, index)
      Typed(types) ==
        types /= << >> /\ MapHas(L.resolvedTypes, types[1])
      Of(types) ==
        finalizeContext(tree, node, L,
          [type |-> MapGet(L.resolvedTypes, types[1]),
           field |-> JNull, isArray |-> FALSE, documentTypes |-> types],
          {"variable"})
  IN Let(TypesOf(findParameterVariable(node)), LAMBDA ofVariable :
       IF Typed(ofVariable) THEN Of(ofVariable)
       ELSE Let(findAncestorOfType(tree, node,
                  {"access_expression", "subscript_expression"}),
                LAMBDA accessExpr :
              Let(IF accessExpr = 0 THEN << >>
                  ELSE TypesOf(BaseParameter(accessExpr)), LAMBDA ofBase :
                IF Typed(ofBase) THEN Of(ofBase)
                ELSE inferTypeContext(tree, node, L))))

\* the context of the _type filter the node is under, when it names a type
\* of the schema, else null
inferTypeFromExplicitFilter(tree, node, L) ==
  Let(findTypeFilter(tree, node), LAMBDA typeFilter :
    IF typeFilter = 0 THEN JNull
    ELSE Let(extractTypeName(tree, typeFilter), LAMBDA typeName :
           IF typeName = JNull THEN JNull
           ELSE IF ~MapHas(L.resolvedTypes, typeName) THEN JNull
           ELSE finalizeContext(tree, node, L,
                  [type |-> MapGet(L.resolvedTypes, typeName),
                   field |-> JNull, isArray |-> FALSE,
                   documentTypes |-> << typeName >>],
                  {"everything"})))

NoRegistry == JUndef

\* a variant that asks the text before the tree
resolveTypeContextTextFirst(tree, node, L, R, source, position) ==
  LET Typed(context) == context /= JNull /\ context.type /= JNull
  IN Let(IF source /= << >> /\ position /= NoPosition
         THEN inferTypeContextFromText(source, position, L)
         ELSE JNull, LAMBDA textContext :
       IF Typed(textContext) THEN textContext
       ELSE Let(IF node = 0 THEN JNull
                ELSE inferTypeFromExplicitFilter(tree, node, L),
                LAMBDA explicitContext :
         IF Typed(explicitContext) THEN explicitContext
         ELSE Let(IF node /= 0 /\ R /= NoRegistry
                  THEN isInsideFunctionBody(R, tree, node)
                  ELSE JNull, LAMBDA funcDef :
           Let(IF funcDef /= JNull
               THEN inferTypeContextInFunctionBody(tree, node, funcDef, R, L)
               ELSE JNull, LAMBDA funcContext :
             IF Typed(funcContext) THEN funcContext
             ELSE IF node /= 0 THEN inferTypeContext(tree, node, L)
             ELSE [type |-> JNull, field |-> JNull, isArray |-> FALSE,
                   documentTypes |-> getDocumentTypeNames(L)]))))
resolveTypeContext(tree, node, L, R, source, position) ==
  LET Typed(context) == context /= JNull /\ context.type /= JNull
  IN Let(IF node = 0 THEN JNull
         ELSE inferTypeFromExplicitFilter(tree, node, L),
         LAMBDA explicitContext :
       IF Typed(explicitContext) THEN explicitContext
       ELSE Let(IF source /= << >> /\ position /= NoPosition
                THEN inferTypeContextFromText(source, position, L)
                ELSE JNull, LAMBDA textContext :
         IF Typed(textContext) THEN textContext
         ELSE Let(IF node /= 0 /\ R /= NoRegistry
                  THEN isInsideFunctionBody(R, tree, node)
                  ELSE JNull, LAMBDA funcDef :
           Let(IF funcDef /= JNull
               THEN inferTypeContextInFunctionBody(tree, node, funcDef, R, L)
               ELSE JNull, LAMBDA funcContext :
             IF Typed(funcContext) THEN funcContext
             ELSE IF node /= 0 THEN inferTypeContext(tree, node, L)
             ELSE [type |-> JNull, field |-> JNull, isArray |-> FALSE,
                   documentTypes |-> getDocumentTypeNames(L)]))))

(***************************************************************************)
(* Diagnostics.                                                            *)
(***************************************************************************)
\* a variant that reports every call of a user function from a body
validateNoRecursionAnyCall(tree, R) ==
  LET Reported(node) ==
        /\ tree[node].type = "function_call"
        /\ Let(getFieldNode(tree, node, "name"), LAMBDA nameNode :
             /\ nameNode /= 0
             /\ isInsideFunctionBody(R, tree, node) /= JNull
             /\ MapHas(R.definitions, tree[nameNode].text))
  IN Let(SelectSeq(walkTree(tree, 1), Reported), LAMBDA found :
       [k \in 1..Len(found) |-> getFieldNode(tree, found[k], "name")])
\* the name nodes the recursion diagnostics point at, one per diagnostic
validateNoRecursion(tree, R) ==
  LET Reported(node) ==
        /\ tree[node].type = "function_call"
        /\ Let(getFieldNode(tree, node, "name"), LAMBDA nameNode :
             /\ nameNode /= 0
             /\ Let(isInsideFunctionBody(R, tree, node), LAMBDA funcDef :
                  /\ funcDef /= JNull
                  /\ funcDef.name = tree[nameNode].text))
  IN Let(SelectSeq(walkTree(tree, 1), Reported), LAMBDA found :
       [k \in 1..Len(found) |-> getFieldNode(tree, found[k], "name")])

(***************************************************************************)
(* The documents analysed.                                                 *)
(***************************************************************************)
Documents ==
  <<
     \* // @param {author} $x / fn f($x) = $x-> { name }; *[_type == "post"]{ "a": f(author), "t": f(tags), "n": f(1) }
     [rawSource |-> << [at |-> 2, type |-> "author", param |-> "$x"] >>,
      tree |->
     << N("source_file", "", 0, ""), N("function_definition", "", 1, ""),
        N("identifier", "f", 2, "name"), N("parameter_list", "", 2, ""),
        N("variable", "$x", 4, ""),
        N("projection_expression", "", 2, "body"),
        N("dereference_expression", "", 6, "base"),
        N("variable", "$x", 7, "base"), N("projection", "", 6, ""),
        N("identifier", "name", 9, ""),
        N("projection_expression", "", 1, ""),
        N("subscript_expression", "", 11, "base"),
        N("everything", "*", 12, "base"),
        N("comparison_expression", "", 12, "index"),
        N("identifier", "_type", 14, "left"), N("==", "==", 14, "operator"),
        N("string", "\"post\"", 14, "right"), N("projection", "", 11, ""),
        N("pair", "", 18, ""), N("string", "\"a\"", 19, "key"),
        N("function_call", "", 19, "value"),
        N("identifier", "f", 21, "name"), N("identifier", "author", 21, ""),
        N("pair", "", 18, ""), N("string", "\"t\"", 24, "key"),
        N("function_call", "", 24, "value"),
        N("identifier", "f", 26, "name"), N("identifier", "tags", 26, ""),
        N("pair", "", 18, ""), N("string", "\"n\"", 29, "key"),
        N("function_call", "", 29, "value"),
        N("identifier", "f", 31, "name"), N("number", "1", 31, "") >>],
     \* fn recurse($x) = recurse($x); fn a($x) = b($x); fn b($x) = a($x); fn ns::r($ref) = $ref[] { "t": ns::r(@) }; recurse(author)
     [rawSource |-> <<  >>,
      tree |->
     << N("source_file", "", 0, ""), N("function_definition", "", 1, ""),
        N("identifier", "recurse", 2, "name"),
        N("parameter_list", "", 2, ""), N("variable", "$x", 4, ""),
        N("function_call", "", 2, "body"),
        N("identifier", "recurse", 6, "name"), N("variable", "$x", 6, ""),
        N("function_definition", "", 1, ""), N("identifier", "a", 9, "name"),
        N("parameter_list", "", 9, ""), N("variable", "$x", 11, ""),
        N("function_call", "", 9, "body"), N("identifier", "b", 13, "name"),
        N("variable", "$x", 13, ""), N("function_definition", "", 1, ""),
        N("identifier", "b", 16, "name"), N("parameter_list", "", 16, ""),
        N("variable", "$x", 18, ""), N("function_call", "", 16, "body"),
        N("identifier", "a", 20, "name"), N("variable", "$x", 20, ""),
        N("function_definition", "", 1, ""),
        N("identifier", "ns::r", 23, "name"),
        N("parameter_list", "", 23, ""), N("variable", "$ref", 25, ""),
        N("projection_expression", "", 23, "body"),
        N("subscript_expression", "", 27, "base"),
        N("variable", "$ref", 28, "base"), N("projection", "", 27, ""),
        N("pair", "", 30, ""), N("string", "\"t\"", 31, "key"),
        N("function_call", "", 31, "value"),
        N("identifier", "ns::r", 33, "name"), N("this", "@", 33, ""),
        N("function_call", "", 1, ""),
        N("identifier", "recurse", 36, "name"),
        N("identifier", "author", 36, "") >>],
     \* fn f($x, $y) = $x; fn f($z) = $z.title; *[_type == "author"]{ "v": f(name, name), "w": count(name) }
     [rawSource |-> <<  >>,
      tree |->
     << N("source_file", "", 0, ""), N("function_definition", "", 1, ""),
        N("identifier", "f", 2, "name"), N("parameter_list", "", 2, ""),
        N("variable", "$x", 4, ""), N("variable", "$y", 4, ""),
        N("variable", "$x", 2, "body"), N("function_definition", "", 1, ""),
        N("identifier", "f", 8, "name"), N("parameter_list", "", 8, ""),
        N("variable", "$z", 10, ""), N("access_expression", "", 8, "body"),
        N("variable", "$z", 12, "base"),
        N("identifier", "title", 12, "member"),
        N("projection_expression", "", 1, ""),
        N("subscript_expression", "", 15, "base"),
        N("everything", "*", 16, "base"),
        N("comparison_expression", "", 16, "index"),
        N("identifier", "_type", 18, "left"), N("==", "==", 18, "operator"),
        N("string", "\"author\"", 18, "right"), N("projection", "", 15, ""),
        N("pair", "", 22, ""), N("string", "\"v\"", 23, "key"),
        N("function_call", "", 23, "value"),
        N("identifier", "f", 25, "name"), N("identifier", "name", 25, ""),
        N("identifier", "name", 25, ""), N("pair", "", 22, ""),
        N("string", "\"w\"", 29, "key"), N("function_call", "", 29, "value"),
        N("identifier", "count", 31, "name"),
        N("identifier", "name", 31, "") >>],
     \* *[_type == "post"]{ title, author { name }, authors[] { name } }; *[_type == "ghost"]{ title }; *{ author.name }; *[_type == "post"]{ editor { name } }
     [rawSource |-> <<  >>,
      tree |->
     << N("source_file", "", 0, ""), N("projection_expression", "", 1, ""),
        N("subscript_expression", "", 2, "base"),
        N("everything", "*", 3, "base"),
        N("comparison_expression", "", 3, "index"),
        N("identifier", "_type", 5, "left"), N("==", "==", 5, "operator"),
        N("string", "\"post\"", 5, "right"), N("projection", "", 2, ""),
        N("identifier", "title", 9, ""),
        N("projection_expression", "", 9, ""),
        N("identifier", "author", 11, "base"), N("projection", "", 11, ""),
        N("identifier", "name", 13, ""),
        N("projection_expression", "", 9, ""),
        N("subscript_expression", "", 15, "base"),
        N("identifier", "authors", 16, "base"), N("projection", "", 15, ""),
        N("identifier", "name", 18, ""),
        N("projection_expression", "", 1, ""),
        N("subscript_expression", "", 20, "base"),
        N("everything", "*", 21, "base"),
        N("comparison_expression", "", 21, "index"),
        N("identifier", "_type", 23, "left"), N("==", "==", 23, "operator"),
        N("string", "\"ghost\"", 23, "right"), N("projection", "", 20, ""),
        N("identifier", "title", 27, ""),
        N("projection_expression", "", 1, ""),
        N("everything", "*", 29, "base"), N("projection", "", 29, ""),
        N("access_expression", "", 31, ""),
        N("identifier", "author", 32, "base"),
        N("identifier", "name", 32, "member"),
        N("projection_expression", "", 1, ""),
        N("subscript_expression", "", 35, "base"),
        N("everything", "*", 36, "base"),
        N("comparison_expression", "", 36, "index"),
        N("identifier", "_type", 38, "left"), N("==", "==", 38, "operator"),
        N("string", "\"post\"", 38, "right"), N("projection", "", 35, ""),
        N("projection_expression", "", 42, ""),
        N("identifier", "editor", 43, "base"), N("projection", "", 43, ""),
        N("identifier", "name", 45, "") >>],
     \* // @param {author} $p / fn g($p) = $p.title; *[_type == "post"]{ "r": g(author->) }
     [rawSource |-> << [at |-> 2, type |-> "author", param |-> "$p"] >>,
      tree |->
     << N("source_file", "", 0, ""), N("function_definition", "", 1, ""),
        N("identifier", "g", 2, "name"), N("parameter_list", "", 2, ""),
        N("variable", "$p", 4, ""), N("access_expression", "", 2, "body"),
        N("variable", "$p", 6, "base"),
        N("identifier", "title", 6, "member"),
        N("projection_expression", "", 1, ""),
        N("subscript_expression", "", 9, "base"),
        N("everything", "*", 10, "base"),
        N("comparison_expression", "", 10, "index"),
        N("identifier", "_type", 12, "left"), N("==", "==", 12, "operator"),
        N("string", "\"post\"", 12, "right"), N("projection", "", 9, ""),
        N("pair", "", 16, ""), N("string", "\"r\"", 17, "key"),
        N("function_call", "", 17, "value"),
        N("identifier", "g", 19, "name"),
        N("dereference_expression", "", 19, ""),
        N("identifier", "author", 21, "base") >>],
     \* // @param {author} $y / fn h($y) = $y; *[_type == "post"]{ "a": h(name), "v": h($v), "c": h(count(title)), "s": h("lit"), "g": h(ghost) }
     [rawSource |-> << [at |-> 2, type |-> "author", param |-> "$y"] >>,
      tree |->
     << N("source_file", "", 0, ""), N("function_definition", "", 1, ""),
        N("identifier", "h", 2, "name"), N("parameter_list", "", 2, ""),
        N("variable", "$y", 4, ""), N("variable", "$y", 2, "body"),
        N("projection_expression", "", 1, ""),
        N("subscript_expression", "", 7, "base"),
        N("everything", "*", 8, "base"),
        N("comparison_expression", "", 8, "index"),
        N("identifier", "_type", 10, "left"), N("==", "==", 10, "operator"),
        N("string", "\"post\"", 10, "right"), N("projection", "", 7, ""),
        N("pair", "", 14, ""), N("string", "\"a\"", 15, "key"),
        N("function_call", "", 15, "value"),
        N("identifier", "h", 17, "name"), N("identifier", "name", 17, ""),
        N("pair", "", 14, ""), N("string", "\"v\"", 20, "key"),
        N("function_call", "", 20, "value"),
        N("identifier", "h", 22, "name"), N("variable", "$v", 22, ""),
        N("pair", "", 14, ""), N("string", "\"c\"", 25, "key"),
        N("function_call", "", 25, "value"),
        N("identifier", "h", 27, "name"), N("function_call", "", 27, ""),
        N("identifier", "count", 29, "name"),
        N("identifier", "title", 29, ""), N("pair", "", 14, ""),
        N("string", "\"s\"", 32, "key"), N("function_call", "", 32, "value"),
        N("identifier", "h", 34, "name"), N("string", "\"lit\"", 34, ""),
        N("pair", "", 14, ""), N("string", "\"g\"", 37, "key"),
        N("function_call", "", 37, "value"),
        N("identifier", "h", 39, "name"), N("identifier", "ghost", 39, "") >>] >>

\* what a parameter-type hook function answers: the declared type of the
\* parameter, one fixed type, or nothing
CallParameterTypeHook(hook, funcDef, param, paramIndex) ==
  IF hook = "annotations.getParameterType" THEN param.declaredType
  ELSE IF hook = "pinned.getParameterType" THEN JStr("category")
  ELSE JNull

\* the type names of a parameter: the first answer of a parameter-type hook
\* alone, else the inferred types
getParameterType(R, E, funcName, paramIndex) ==
  LET funcDef == MapGet(R.definitions, funcName)
      hooks == getHook(E, "getParameterType")
      answers == [i \in 1..Len(hooks) |->
                    CallParameterTypeHook(hooks[i].hook, funcDef,
                                          funcDef.parameters[paramIndex + 1],
                                          paramIndex)]
      given == SelectSeq(answers, LAMBDA a : a /= JNull)
  IN IF ~MapHas(R.definitions, funcName) THEN << >>
     ELSE IF paramIndex >= Len(funcDef.parameters) THEN << >>
     ELSE IF given /= << >> THEN << given[1] >>
     ELSE getInferredParameterType(R, funcName, paramIndex)

(***************************************************************************)
(* One loader; every loadFromPath runs to its return before anything else  *)
(* happens (the call contains no await).                                   *)
(***************************************************************************)
Quiet == \A l \in DOMAIN calls : calls[l].pc = "idle"

Init ==
  /\ documents = NewDocumentCache(DefaultMaxSize)
  /\ file \in Files
  /\ cache = NoCache
  /\ loaders = [l \in {1} |-> NewLoader(<< >>)]
  /\ calls = [l \in {1} |-> IdleCall]
  /\ repeat = [l \in {1} |-> NoRepeat]
  /\ ext = NewExtensionRegistry
  /\ registry = NewFunctionRegistry
  /\ out = NoCall

Next ==
  \/ \E l \in DOMAIN loaders : LoadFromPath(l)
  \/ \E l \in DOMAIN loaders : AwaitLoad(l)
  \/ \E l \in DOMAIN loaders : \E config \in PartialConfigs :
        updateValidationConfig(l, config)
  \/ \E l \in DOMAIN loaders : clear(l)
  \/ \E l \in DOMAIN loaders : \E explicit \in BOOLEAN :
        clearValidationCache(l, explicit)
  \/ Quiet /\ \E f \in Files : EditFile(f)
  \/ Quiet /\ \E kind \in {"corrupt", "locked", "version", "nodir"} :
        TamperCache(kind)

Spec == Init /\ [][Next]_vars

(***************************************************************************)
(* One loader whose three limits are reconfigured while the schema file is *)
(* rewritten with schemas of different sizes; validation and caching stay  *)
(* enabled.                                                                *)
(***************************************************************************)
InitLimits ==
  /\ documents = NewDocumentCache(DefaultMaxSize)
  /\ file \in LimitFiles
  /\ cache = NoCache
  /\ loaders = [l \in {1} |-> NewLoader(<< >>)]
  /\ calls = [l \in {1} |-> IdleCall]
  /\ repeat = [l \in {1} |-> NoRepeat]
  /\ ext = NewExtensionRegistry
  /\ registry = NewFunctionRegistry
  /\ out = NoCall

NextLimits ==
  \/ \E l \in DOMAIN loaders : LoadFromPath(l)
  \/ \E l \in DOMAIN loaders : AwaitLoad(l)
  \/ \E l \in DOMAIN loaders : \E config \in LimitConfigs :
        updateValidationConfig(l, config)
  \/ Quiet /\ \E f \in LimitFiles : EditFile(f)
  \/ Quiet /\ \E kind \in {"corrupt", "nodir"} : TamperCache(kind)

SpecLimits == InitLimits /\ [][NextLimits]_vars

(***************************************************************************)
(* One loader reading values of every shape, recognised or not, and        *)
(* schemas at and just over each limit, while the limits and the caching   *)
(* of verdicts are reconfigured.                                           *)
(***************************************************************************)
ShapeFiles ==
  {FileWith(t) : t \in {2, 5, 7, 11, 12, 13, 14, 15, 16, 17, 18, 19, 20}}
ShapeConfigs ==
  { [maxDepth |-> SmallDepth, maxTypes |-> SmallTypes,
     maxFieldsPerType |-> SmallFields],
    [maxDepth |-> DefaultMaxDepth, maxTypes |-> DefaultMaxTypes,
     maxFieldsPerType |-> DefaultMaxFieldsPerType],
    [cacheValidation |-> FALSE], [cacheValidation |-> TRUE] }

InitShapes ==
  /\ documents = NewDocumentCache(DefaultMaxSize)
  /\ file \in ShapeFiles
  /\ cache = NoCache
  /\ loaders = [l \in {1} |-> NewLoader(<< >>)]
  /\ calls = [l \in {1} |-> IdleCall]
  /\ repeat = [l \in {1} |-> NoRepeat]
  /\ ext = NewExtensionRegistry
  /\ registry = NewFunctionRegistry
  /\ out = NoCall

NextShapes ==
  \/ \E l \in DOMAIN loaders : LoadFromPath(l)
  \/ \E l \in DOMAIN loaders : AwaitLoad(l)
  \/ \E l \in DOMAIN loaders : \E config \in ShapeConfigs :
        updateValidationConfig(l, config)
  \/ Quiet /\ \E f \in ShapeFiles : EditFile(f)

SpecShapes == InitShapes /\ [][NextShapes]_vars

(***************************************************************************)
(* Two loaders in two processes sharing the schema file and its cache      *)
(* file; their calls interleave at every file-system step.  The second     *)
(* loader has a small type limit, the first the same or the default one.   *)
(***************************************************************************)
ConcConfigs == { << >>, [maxTypes |-> SmallTypes] }

InitConc ==
  /\ documents = NewDocumentCache(DefaultMaxSize)
  /\ file \in ConcFiles
  /\ cache = NoCache
  /\ \E c1 \in ConcConfigs :
        loaders = [l \in {1, 2} |->
                     NewLoader(IF l = 1 THEN c1 ELSE [maxTypes |-> SmallTypes])]
  /\ calls = [l \in {1, 2} |-> IdleCall]
  /\ repeat = [l \in {1, 2} |-> NoRepeat]
  /\ ext = NewExtensionRegistry
  /\ registry = NewFunctionRegistry
  /\ out = NoCall

NextConc ==
  \/ \E l \in DOMAIN loaders : BeginLoad(l)
  \/ \E l \in DOMAIN loaders : ReadCache(l)
  \/ \E l \in DOMAIN loaders : WriteOpen(l)
  \/ \E l \in DOMAIN loaders : WriteClose(l)
  \/ \E l \in DOMAIN loaders : AwaitLoad(l)
  \/ \E f \in ConcFiles : EditFile(f)

SpecConc == InitConc /\ [][NextConc]_vars

(***************************************************************************)
(* The extension registry under every sequence of register, enable and     *)
(* disable calls; no schema is involved.                                   *)
(***************************************************************************)
InitExt ==
  /\ documents = NewDocumentCache(DefaultMaxSize)
  /\ file = MissingFile
  /\ cache = NoCache
  /\ loaders = [l \in {1} |-> NewLoader(<< >>)]
  /\ calls = [l \in {1} |-> IdleCall]
  /\ repeat = [l \in {1} |-> NoRepeat]
  /\ ext = NewExtensionRegistry
  /\ registry = NewFunctionRegistry
  /\ out = NoCall

NextExt ==
  \/ \E e \in Extensions : register(e)
  \/ \E extensionId \in {e.id : e \in Extensions} \cup {"unknown"} :
        \E options \in {NoOptions, "strict"} : enable(extensionId, options)
  \/ \E extensionId \in {e.id : e \in Extensions} \cup {"unknown"} :
        disable(extensionId)

SpecExt == InitExt /\ [][NextExt]_vars

(***************************************************************************)
(* Analysis of documents while the schema is loaded: extraction into the   *)
(* registry of the open document, and diagnostics, which build a registry  *)
(* of their own.                                                           *)
(***************************************************************************)
AnalysisFiles == {FileWith(t) : t \in {3, 7, 10}}

\* out.args keeps the raw source, the loader as it was and the document
\* analysed before
ExtractFromAST(d, rawSource) ==
  /\ registry' = extractFromAST(registry, Documents[d].tree, loaders[1],
                                rawSource)
  /\ out' = [out EXCEPT !.op = "extractFromAST", !.doc = d,
                        !.args = << rawSource, loaders[1], out.doc >>,
                        !.result = JNull]
  /\ UNCHANGED << file, cache, loaders, calls, repeat, ext, documents >>

GetDiagnostics(d) ==
  /\ out' = [out EXCEPT
               !.op = "getDiagnostics", !.doc = d, !.args = << >>,
               !.result =
                 validateNoRecursion(
                   Documents[d].tree,
                   extractFromAST(NewFunctionRegistry, Documents[d].tree,
                                  loaders[1], Documents[d].rawSource))]
  /\ UNCHANGED << file, cache, loaders, calls, repeat, ext, registry, documents >>

InitAnalysis ==
  /\ documents = NewDocumentCache(DefaultMaxSize)
  /\ file = FileWith(3)
  /\ cache = NoCache
  /\ loaders = [l \in {1} |-> NewLoader(<< >>)]
  /\ calls = [l \in {1} |-> IdleCall]
  /\ repeat = [l \in {1} |-> NoRepeat]
  /\ ext = NewExtensionRegistry
  /\ registry = NewFunctionRegistry
  /\ out = NoCall

NextAnalysis ==
  \/ \E l \in DOMAIN loaders : LoadFromPath(l)
  \/ \E l \in DOMAIN loaders : AwaitLoad(l)
  \/ Quiet /\ \E f \in {FileWith(3), FileWith(10)} : EditFile(f)
  \/ \E d \in DOMAIN Documents :
       \E rawSource \in {<< >>, Documents[d].rawSource} :
         ExtractFromAST(d, rawSource)
  \/ \E d \in DOMAIN Documents : GetDiagnostics(d)

SpecAnalysis == InitAnalysis /\ [][NextAnalysis]_vars

(***************************************************************************)
(* The resolver asked about every node of an analysed document, with and   *)
(* without a source text, a position and the registry.                     *)
(***************************************************************************)
Sources ==
  { << >>,
    \* *[_type == "author"]{
    << [k |-> "punct", t |-> "*"], [k |-> "punct", t |-> "["], [k |-> "word", t |-> "_type"], [k |-> "punct", t |-> "=="], [k |-> "quoted", t |-> "author"],
       [k |-> "punct", t |-> "]"], [k |-> "punct", t |-> "{"] >>,
    \* *[_type == "post"]{ authors[]{
    << [k |-> "punct", t |-> "*"], [k |-> "punct", t |-> "["], [k |-> "word", t |-> "_type"], [k |-> "punct", t |-> "=="], [k |-> "quoted", t |-> "post"],
       [k |-> "punct", t |-> "]"], [k |-> "punct", t |-> "{"], [k |-> "word", t |-> "authors"], [k |-> "punct", t |-> "["], [k |-> "punct", t |-> "]"],
       [k |-> "punct", t |-> "{"] >>,
    \* *[_type == "ghost"]{ tags[]{ } ,
    << [k |-> "punct", t |-> "*"], [k |-> "punct", t |-> "["], [k |-> "word", t |-> "_type"], [k |-> "punct", t |-> "=="], [k |-> "quoted", t |-> "ghost"],
       [k |-> "punct", t |-> "]"], [k |-> "punct", t |-> "{"], [k |-> "word", t |-> "tags"], [k |-> "punct", t |-> "["], [k |-> "punct", t |-> "]"],
       [k |-> "punct", t |-> "{"], [k |-> "punct", t |-> "}"], [k |-> "punct", t |-> ","] >> }

ResolveTypeContext(node, R, source, position) ==
  /\ out.op = "none"
  /\ out' = [out EXCEPT
               !.op = "resolveTypeContext",
               !.args = << node, R, source, position >>,
               !.result = resolveTypeContext(Documents[out.doc].tree, node,
                                             loaders[1], R, source, position)]
  /\ UNCHANGED << file, cache, loaders, calls, repeat, ext, registry, documents >>

GetReferenceTargetFields(typeName, fieldName) ==
  /\ out.op = "none"
  /\ getField(loaders[1], typeName, fieldName) /= JUndef
  /\ out' = [out EXCEPT
               !.op = "getReferenceTargetFields",
               !.args = << typeName, fieldName >>,
               !.result = JArr(getReferenceTargetFields(
                                 getField(loaders[1], typeName, fieldName),
                                 loaders[1]))]
  /\ UNCHANGED << file, cache, loaders, calls, repeat, ext, registry, documents >>

\* the caller takes the answer
Respond ==
  /\ out.op /= "none"
  /\ out' = [out EXCEPT !.op = "none", !.args = << >>, !.result = JNull]
  /\ UNCHANGED << file, cache, loaders, calls, repeat, ext, registry, documents >>

InitResolve ==
  \E f \in AnalysisFiles \cup {MissingFile} : \E d \in DOMAIN Documents :
    \E W \in {RunLoad(NewLoader(<< >>), f, NoCache)} :
      /\ file = f
      /\ cache = W.cache
      /\ loaders = [l \in {1} |-> W.L]
      /\ calls = [l \in {1} |-> IdleCall]
      /\ repeat = [l \in {1} |-> NoteLoad(NoRepeat, W.F, W.L)]
      /\ ext = NewExtensionRegistry
      /\ registry = extractFromAST(NewFunctionRegistry, Documents[d].tree,
                                   W.L, Documents[d].rawSource)
      /\ out = [NoCall EXCEPT !.doc = d]
      /\ documents = NewDocumentCache(DefaultMaxSize)

NextResolve ==
  \/ \E node \in 0..Len(Documents[out.doc].tree) :
       \E R \in {NoRegistry, registry} : \E source \in Sources :
         \E position \in {NoPosition, Len(source)} :
           ResolveTypeContext(node, R, source, position)
  \/ \E typeName \in {"post", "author"} :
       \E fieldName \in {"title", "author", "editor"} :
         GetReferenceTargetFields(typeName, fieldName)
  \/ Respond

SpecResolve == InitResolve /\ [][NextResolve]_vars

(***************************************************************************)
(* Parameter types asked of a registry while extensions are registered,    *)
(* enabled and disabled.                                                   *)
(***************************************************************************)
GetParameterType(funcName, paramIndex) ==
  /\ out' = [out EXCEPT
               !.op = "getParameterType",
               !.args = << funcName, paramIndex >>,
               !.result = getParameterType(registry, ext, funcName,
                                           paramIndex)]
  /\ UNCHANGED << file, cache, loaders, calls, repeat, ext, registry, documents >>

InitHooks ==
  \E d \in {1, 5} : \E rawSource \in {<< >>, Documents[d].rawSource} :
    \E W \in {RunLoad(NewLoader(<< >>), FileWith(3), NoCache)} :
      /\ file = FileWith(3)
      /\ cache = W.cache
      /\ loaders = [l \in {1} |-> W.L]
      /\ calls = [l \in {1} |-> IdleCall]
      /\ repeat = [l \in {1} |-> NoteLoad(NoRepeat, W.F, W.L)]
      /\ ext = NewExtensionRegistry
      /\ registry = extractFromAST(NewFunctionRegistry, Documents[d].tree,
                                   W.L, rawSource)
      /\ out = [NoCall EXCEPT !.doc = d]
      /\ documents = NewDocumentCache(DefaultMaxSize)

NextHooks ==
  \/ \E e \in Extensions : register(e)
  \/ \E extensionId \in {e.id : e \in Extensions} : enable(extensionId, NoOptions)
  \/ \E extensionId \in {e.id : e \in Extensions} : disable(extensionId)
  \/ \E funcName \in {"f", "g"} : \E paramIndex \in {0, 1} :
       GetParameterType(funcName, paramIndex)

SpecHooks == InitHooks /\ [][NextHooks]_vars

(***************************************************************************)
(* The document cache under every sequence of set (update is set), delete   *)
(* and clear calls.  out keeps the last call and its result, the key evicted   *)
(* by it, the document passed to the most recent set, whether a later      *)
(* delete of its URI or a clear followed it, and whether the empty URI was *)
(* ever set.                                                               *)
(***************************************************************************)
MaxSize == 2
MaxVersion == 2
Uris == {"", "file:///a.groq", "file:///b.groq", "file:///c.groq"}
DocumentTexts == {"*[_type == 'post']"}
TextDocuments ==
  {TextDocument(uri, version, text) :
     uri \in Uris, version \in 1..MaxVersion, text \in DocumentTexts}

NoDocument == TextDocument("<none>", 0, "")
NoCacheCall ==
  [op |-> "none", args |-> << >>, result |-> JUndef, evicted |-> << >>,
   last |-> NoDocument, removed |-> FALSE, emptyUri |-> FALSE]

Set(document) ==
  \E W \in {setDocument(documents, document)} :
    /\ documents' = W.cache
    /\ out' = [out EXCEPT
                 !.op = "set", !.args = << document >>, !.result = W.result,
                 !.evicted = SelectSeq(
                    getAllUris(documents) \o << document.uri >>,
                    LAMBDA u : has(documents, u) /\ ~has(W.cache, u)),
                 !.last = document, !.removed = FALSE,
                 !.emptyUri = @ \/ document.uri = ""]
    /\ UNCHANGED << file, cache, loaders, calls, repeat, ext, registry >>

Delete(uri) ==
  \E W \in {deleteDocument(documents, uri)} :
    /\ documents' = W.cache
    /\ out' = [out EXCEPT
                 !.op = "delete", !.args = << uri >>, !.result = W.result,
                 !.evicted = << >>,
                 !.removed = @ \/ uri = out.last.uri]
    /\ UNCHANGED << file, cache, loaders, calls, repeat, ext, registry >>

ClearDocuments ==
  /\ documents' = [documents EXCEPT !.cache = << >>]
  /\ out' = [out EXCEPT !.op = "clear", !.args = << >>, !.result = JUndef,
                        !.evicted = << >>, !.removed = TRUE]
  /\ UNCHANGED << file, cache, loaders, calls, repeat, ext, registry >>

InitCache ==
  /\ file = MissingFile
  /\ cache = NoCache
  /\ loaders = [l \in {1} |-> NewLoader(<< >>)]
  /\ calls = [l \in {1} |-> IdleCall]
  /\ repeat = [l \in {1} |-> NoRepeat]
  /\ ext = NewExtensionRegistry
  /\ registry = NewFunctionRegistry
  /\ out = NoCacheCall
  /\ \E maxSize \in 0..MaxSize : documents = NewDocumentCache(maxSize)

NextCache ==
  \/ \E document \in TextDocuments : Set(document)
  \/ \E uri \in Uris : Delete(uri)
  \/ ClearDocuments

SpecCache == InitCache /\ [][NextCache]_vars

(***************************************************************************)
(* Properties.  Returned(l) holds in the state a loadFromPath call of      *)
(* loader l has just returned in, before its caller resumes; the call      *)
(* frame then still holds the value returned and the schema text read.     *)
(***************************************************************************)
Returned(l) == calls[l].pc = "returned"
Unmarked(m) == [m EXCEPT !.cached = 0]
MidLoad == {"readCache", "writeOpen", "writeClose"}

\* C1: whenever loadFromPath returns false the loader is afterwards
\* unloaded: isLoaded() is false and no type of an earlier schema can be
\* retrieved through getType / getTypeNames / getField.
C1_FailedLoadUnloads ==
  \A l \in DOMAIN loaders :
    (Returned(l) /\ calls[l].ret = "false")
      => /\ ~isLoaded(loaders[l])
         /\ getTypeNames(loaders[l]) = << >>

\* C2: a reader of the schema model sees, in every state including those
\* in the middle of a load, a type map that is empty or the complete
\* resolution of the schema the loader holds, and an unloaded loader has no
\* types; a load changes nothing of the model before it has finished
\* reading the cache and validating (steps that leave the call at one of
\* its file-system operations keep schema, rawSchema and resolvedTypes).
SchemaModel(L) == << L.schema, L.rawSchema, L.resolvedTypes >>
TypeMapComplete(L) ==
  /\ ~isLoaded(L) => L.resolvedTypes = << >>
  /\ L.rawSchema /= JNull =>
       LET r == resolveTypesFromRaw(L.rawSchema, JNull)
       IN ~r.threw /\ L.resolvedTypes = r.value
C2_AtomicReplacement ==
  /\ [](\A l \in DOMAIN loaders : TypeMapComplete(loaders[l]))
  /\ [][\A l \in DOMAIN loaders :
          calls'[l].pc \in MidLoad =>
            SchemaModel(loaders'[l]) = SchemaModel(loaders[l])]_vars
\* a load is between its cache write's open and close while the loader
\* still answers queries from the schema loaded before the file changed
C2_Witness ==
  \E l \in DOMAIN loaders :
    /\ calls[l].pc = "writeClose"
    /\ loaders[l].resolvedTypes /= << >>
    /\ loaders[l].rawSchema /= Texts[calls[l].text].value

\* C3: with caching enabled, every load returns the value, and leaves the
\* resolved types, that the same load with caching disabled would produce
\* for the file content and limits in force, whatever record the cache
\* holds from earlier content or earlier limits.
C3_CacheNeverStale ==
  [][\A l \in DOMAIN loaders :
       (/\ calls[l].pc = "idle"
        /\ calls'[l].pc = "returned"
        /\ loaders[l].validationConfig.cacheValidation)
         => LET uncached ==
                  RunLoad([loaders[l] EXCEPT
                             !.validationConfig.cacheValidation = FALSE],
                          file, cache)
            IN /\ calls'[l].ret = uncached.F.ret
               /\ loaders'[l].resolvedTypes = uncached.L.resolvedTypes]_vars
\* a load found a record written for other content or other limits,
\* validated again and rejected the schema
C3_Witness ==
  \E l \in DOMAIN loaders :
    /\ Returned(l)
    /\ calls[l].seen = "hash"
    /\ calls[l].cause = "validation"

UnusableCache == {"locked", "corrupt", "version", "hash"}
C5_UnusableCacheIsMiss ==
  [][\A l \in DOMAIN loaders :
       (/\ calls[l].pc = "idle"
        /\ calls'[l].pc = "returned"
        /\ calls'[l].seen \in UnusableCache)
         => LET fresh == RunLoad(loaders[l], file, NoCache)
            IN /\ loaders'[l] = fresh.L
               /\ calls'[l].ret = fresh.F.ret
               /\ calls'[l].cause = fresh.F.cause]_vars
\* a load met a record of another version and went on to load the schema
C5_Witness ==
  \E l \in DOMAIN loaders :
    /\ Returned(l)
    /\ calls[l].seen = "version"
    /\ calls[l].ret = "true"

\* C6: in every interleaving of two loaders' cache reads, validations and
\* cache writes each load returns what a load of the content it read,
\* under its own limits and without any cache, returns; and a record left
\* in the cache file is the verdict of full validation for the content and
\* limits it is stamped with.
FullLoad(text, cfg) ==
  RunLoad(NewLoader([cfg EXCEPT !.cacheValidation = FALSE]),
          FileWith(text), NoCache).F.ret
C6_RaceKeepsVerdict ==
  /\ \A l \in DOMAIN loaders :
       Returned(l) =>
         calls[l].ret = FullLoad(calls[l].text, loaders[l].validationConfig)
  /\ cache.st = "record" =>
       \E l \in DOMAIN loaders : \E t \in {f.text : f \in ConcFiles} :
         /\ cache = CacheEntry(computeHash(t),
                               computeConfigHash(loaders[l].validationConfig),
                               validateSchema(Texts[t].value,
                                              loaders[l].validationConfig))
\* a loader read the cache file while the other loader, under other
\* limits, was writing it, and returned
C6_Witness ==
  \E l \in DOMAIN loaders :
    /\ Returned(l)
    /\ calls[l].seen = "corrupt"
    /\ \E o \in DOMAIN loaders :
         loaders[o].validationConfig /= loaders[l].validationConfig

\* Sizes of a parsed schema, measured independently of the validator.
MaxOf(S) == CHOOSE x \in S : \A y \in S : y <= x
RECURSIVE JDepth(_)
JDepth(v) ==
  IF IsObjectLike(v) /\ KeyCount(v) > 0
  THEN 1 + MaxOf({ JDepth(ObjectValues(v)[i]) : i \in 1..KeyCount(v) })
  ELSE 0
DeclaredTypes(p) ==
  IF isGroqTypeSchema(p) THEN ObjectValues(p)
  ELSE IF isSanitySchema(p) THEN Get(p, "types").items
  ELSE << >>
FieldCount(p, t) ==
  IF ~CanRead(t) THEN 0
  ELSE IF isGroqTypeSchema(p) THEN KeyCount(GroqAttributes(t))
  ELSE IF IsArray(Get(t, "fields")) THEN Len(Get(t, "fields").items)
  ELSE 0
ExceedsDepth(p, cfg) == JDepth(p) > cfg.maxDepth
ExceedsTypes(p, cfg) == Len(DeclaredTypes(p)) > cfg.maxTypes
ExceedsFields(p, cfg, i) == FieldCount(p, DeclaredTypes(p)[i]) > cfg.maxFieldsPerType
Oversized(p, cfg) ==
  \/ ExceedsDepth(p, cfg)
  \/ ExceedsTypes(p, cfg)
  \/ \E i \in 1..Len(DeclaredTypes(p)) : ExceedsFields(p, cfg, i)
HeadOK(t) ==
  /\ IsObjectLike(t)
  /\ IsString(Get(t, "name")) /\ Get(t, "name").s /= ""
  /\ IsString(Get(t, "type"))
FieldsOK(t) ==
  \/ ~HasKey(t, "fields")
  \/ /\ IsArray(Get(t, "fields"))
     /\ \A k \in 1..Len(Get(t, "fields").items) :
          HeadOK(Get(t, "fields").items[k])
\* a load that read and parsed its file and ran with validation enabled and
\* a cache directory
Validated(l) ==
  /\ Returned(l)
  /\ calls[l].text /= 0
  /\ loaders[l].validationConfig.enabled
  /\ calls[l].cause /= "cachedir"

BuiltinNames == { BuiltinFields[i].name : i \in 1..Len(BuiltinFields) }
PlainNames(types) ==
  /\ \A i, j \in 1..Len(types) :
       Get(types[i], "name") = Get(types[j], "name") => i = j
  /\ \A i \in 1..Len(types) :
       IsArray(Get(types[i], "fields")) =>
         LET fs == Get(types[i], "fields").items IN
         /\ \A a, b \in 1..Len(fs) :
              Get(fs[a], "name") = Get(fs[b], "name") => a = b
         /\ \A a \in 1..Len(fs) : Get(fs[a], "name") \notin BuiltinNames
C8_ValidSchemaLoads ==
  \A l \in DOMAIN loaders :
    LET p == Texts[calls[l].text].value
        cfg == loaders[l].validationConfig
        types == DeclaredTypes(p)
    IN (/\ Validated(l)
        /\ isSanitySchema(p) /\ ~isGroqTypeSchema(p)
        /\ \A i \in 1..Len(types) : HeadOK(types[i]) /\ FieldsOK(types[i])
        /\ PlainNames(types)
        /\ validateSchema(p, cfg).valid
        /\ ~Oversized(p, cfg))
         => /\ calls[l].ret = "true"
            /\ \A i \in 1..Len(types) :
                 /\ getType(loaders[l], Get(types[i], "name").s) /= JUndef
                 /\ IsArray(Get(types[i], "fields")) =>
                      \A k \in 1..Len(Get(types[i], "fields").items) :
                        LET f == Get(types[i], "fields").items[k]
                            r == getField(loaders[l], Get(types[i], "name").s,
                                          Get(f, "name").s)
                        IN r /= JUndef /\ r.type = Get(f, "type")

\* C9: the last validation error changes only in a loadFromPath call or in
\* clear(); after a load rejected by validation it is that validation's
\* message, after a load that returned true it is null, and clear() leaves
\* it null.  (Schema queries are reads of the loader and change no state.)
ErrorOfValidation(l) ==
  LET v == validateSchema(Texts[calls[l].text].value, loaders[l].validationConfig)
  IN IF v.error = NullMsg THEN DefaultFailedMsg ELSE v.error
C9_ErrorKeptUntilLoadOrClear ==
  /\ [](\A l \in DOMAIN loaders :
          /\ (Returned(l) /\ calls[l].ret = "true")
               => getLastValidationError(loaders[l]) = NullMsg
          /\ (Returned(l) /\ calls[l].cause \in {"validation", "cached"})
               => Unmarked(getLastValidationError(loaders[l]))
                    = ErrorOfValidation(l))
  /\ [][\A l \in DOMAIN loaders :
          /\ getLastValidationError(loaders'[l]) /= getLastValidationError(loaders[l])
               => \/ calls[l].pc = "idle" /\ calls'[l].pc = "returned"
                  \/ /\ loaders'[l].validationConfig = loaders[l].validationConfig
                     /\ ~isLoaded(loaders'[l])
                     /\ loaders'[l].schemaPath = "null"
                     /\ calls'[l] = calls[l]
          /\ (loaders[l].schemaPath /= "null" /\ loaders'[l].schemaPath = "null")
               => getLastValidationError(loaders'[l]) = NullMsg]_vars
\* the message of a rejected load is still there after the load's caller
\* resumed and the file or the configuration changed
C9_Witness ==
  \E l \in DOMAIN loaders :
    /\ calls[l].pc = "idle"
    /\ getLastValidationError(loaders[l]) /= NullMsg
    /\ repeat[l].n = 0

\* C10: after every loadFromPath call that returns false a cause can be
\* retrieved: getLastValidationError() is not null.
C10_FailedLoadHasCause ==
  \A l \in DOMAIN loaders :
    (Returned(l) /\ calls[l].ret = "false")
      => getLastValidationError(loaders[l]) /= NullMsg

\* C11: after any sequence of register, enable and disable calls,
\* getHook(h) returns exactly the registered and currently enabled
\* extensions that implement h, each paired with its own hook function, in
\* the order they were registered (not the order they were enabled); an
\* extension registered and never enabled is disabled.
HooksExpected(hookName) ==
  LET having == SelectSeq(out.order,
                          LAMBDA e : /\ e.id \in out.on
                                     /\ hookName \in DOMAIN e.hooks)
  IN [i \in 1..Len(having) |->
        [extension |-> having[i], hook |-> having[i].hooks[hookName]]]
C11_HooksInRegistrationOrder ==
  /\ \A hookName \in HookNames :
       getHook(ext, hookName) = HooksExpected(hookName)
  /\ \A i \in 1..Len(out.order) :
       isEnabled(ext, out.order[i].id) = (out.order[i].id \in out.on)
\* the extension registered first was enabled last, and its hook still
\* comes first
C11_Witness ==
  /\ out.op = "enable" /\ ~out.threw
  /\ Len(getHook(ext, "getParameterType")) = 2
  /\ getHook(ext, "getParameterType")[1].extension.id = out.id
  /\ Len(out.order) = 3

\* C12: enabling an id that was never registered raises, and so does
\* registering an id that is already registered; in both cases the
\* registered extensions and every extension's enabled flag and options
\* are left as they were.
C12_RejectedCallsChangeNothing ==
  [][/\ (out'.op = "enable" /\ ~MapHas(ext.extensions, out'.id))
          => (out'.threw /\ ext' = ext)
     /\ (out'.op = "register" /\ MapHas(ext.extensions, out'.id))
          => (out'.threw /\ ext' = ext)]_vars
\* a second extension with the id of one that is registered, enabled and
\* configured was just refused
C12_Witness ==
  /\ out.op = "register" /\ out.threw
  /\ isEnabled(ext, out.id)
  /\ MapGet(ext.configs, out.id).options /= NoOptions

\* C13: after extractFromAST, for every function f and parameter index i
\* the inferred-type set of parameter i is the union, over all recorded
\* call sites of f, of the types inferred for argument i; with a schema in
\* which author is a reference field of post to type author, the call
\* f(author) under a post filter puts "author" into
\* getInferredParameterType('f', 0).
ToSet(seq) == {seq[k] : k \in 1..Len(seq)}
C13_InferredTypesAreUnion ==
  /\ \A d \in 1..Len(registry.definitions) :
       \A i \in 0..(Len(registry.definitions[d].val.parameters) - 1) :
         ToSet(getInferredParameterType(registry,
                                        registry.definitions[d].key, i))
           = UNION { ToSet(site.argumentTypes[i + 1].items) :
                       site \in { s \in ToSet(getCallSites(
                                                registry,
                                                registry.definitions[d].key)) :
                                    /\ i + 1 <= Len(s.argumentTypes)
                                    /\ s.argumentTypes[i + 1] /= JNull } }
  /\ (/\ out.op = "extractFromAST"
      /\ out.doc = 1
      /\ isLoaded(out.args[2])
      /\ getField(out.args[2], "post", "author") /= JUndef
      /\ getField(out.args[2], "post", "author").isReference
      /\ getField(out.args[2], "post", "author").referenceTargets
           = JArr(<< JStr("author") >>))
       => JStr("author") \in ToSet(getInferredParameterType(registry, "f", 0))
\* three calls of f were recorded and two of them gave the parameter
\* different types
C13_Witness ==
  /\ out.op = "extractFromAST"
  /\ Len(getCallSites(registry, "f")) = 3
  /\ ToSet(getInferredParameterType(registry, "f", 0))
       = {JStr("author"), JStr("string")}

\* C14: after any sequence of extractFromAST calls on one registry its
\* definitions, call sites, inferred types and declared types are those of
\* a brand-new registry after the last call alone.
C14_ExtractionStartsAfresh ==
  out.op = "extractFromAST"
    => registry = extractFromAST(NewFunctionRegistry,
                                 Documents[out.doc].tree,
                                 out.args[2], out.args[1])
\* the registry held the functions and call sites of another document
\* before the last extraction
C14_Witness ==
  /\ out.op = "extractFromAST"
  /\ out.args[3] \notin {0, out.doc}
  /\ out.doc = 3 /\ out.args[3] = 1
  /\ isLoaded(out.args[2])
  /\ Len(getCallSites(registry, "f")) = 1

\* C15: the diagnostics hold exactly one recursion diagnostic for every
\* call node that lies in the body of a user function and calls that
\* function's own name, plain or namespaced, and none for any other call,
\* mutual recursion included.
SelfCalls(tree) ==
  { c \in 1..Len(tree) :
      /\ tree[c].type = "function_call"
      /\ getFieldNode(tree, c, "name") /= 0
      /\ \E D \in 1..Len(tree) :
           /\ tree[D].type = "function_definition"
           /\ getFieldNode(tree, D, "name") /= 0
           /\ getFieldNode(tree, D, "body") /= 0
           /\ c \in ToSet(walkTree(tree, getFieldNode(tree, D, "body")))
           /\ tree[getFieldNode(tree, D, "name")].text
                = tree[getFieldNode(tree, c, "name")].text }
C15_OneDiagnosticPerSelfCall ==
  out.op = "getDiagnostics"
    => /\ Len(out.result) = Cardinality(SelfCalls(Documents[out.doc].tree))
       /\ {Documents[out.doc].tree[n].parent : n \in ToSet(out.result)}
            = SelfCalls(Documents[out.doc].tree)
\* two self calls were reported in a document that also holds two
\* functions calling each other and a call from outside any body
C15_Witness ==
  /\ out.op = "getDiagnostics"
  /\ out.doc = 2
  /\ Len(out.result) = 2

\* C16: resolveTypeContext takes the context of the first strategy that
\* gives a type, in the order explicit _type filter, text pattern (asked
\* only when a source text and a position are supplied), function body,
\* general structural inference; an explicit filter on post wins over a
\* text pattern naming another type.
StrategyChain ==
  LET tree == Documents[out.doc].tree
      node == out.args[1]
      R == out.args[2]
  IN << IF node /= 0
        THEN inferTypeFromExplicitFilter(tree, node, loaders[1]) ELSE JNull,
        IF out.args[3] /= << >> /\ out.args[4] /= NoPosition
        THEN inferTypeContextFromText(out.args[3], out.args[4], loaders[1])
        ELSE JNull,
        IF node /= 0 /\ R /= NoRegistry
        THEN IF isInsideFunctionBody(R, tree, node) /= JNull
             THEN inferTypeContextInFunctionBody(
                    tree, node, isInsideFunctionBody(R, tree, node), R,
                    loaders[1])
             ELSE JNull
        ELSE JNull,
        IF node /= 0 THEN inferTypeContext(tree, node, loaders[1])
        ELSE JNull >>
C16_FirstTypedStrategyWins ==
  out.op = "resolveTypeContext"
    => LET typed == SelectSeq(StrategyChain,
                              LAMBDA c : c /= JNull /\ c.type /= JNull)
       IN IF typed /= << >> THEN out.result = typed[1]
          ELSE out.result.type = JNull
\* the node is under a filter on post, the text in front of the cursor
\* names author, and the answer is post
C16_Witness ==
  /\ out.op = "resolveTypeContext"
  /\ StrategyChain[1] /= JNull
  /\ StrategyChain[2] /= JNull
  /\ StrategyChain[2].type /= JNull
  /\ StrategyChain[2].type.name = JStr("author")
  /\ out.result.type /= JNull
  /\ out.result.type.name = JStr("post")

C18_UntypedContextListsAllDocumentTypes ==
  out.op = "resolveTypeContext"
    => /\ DOMAIN out.result = {"type", "field", "isArray", "documentTypes"}
       /\ out.result.type = JNull
            => out.result.documentTypes = getDocumentTypeNames(loaders[1])
\* no type for a node under a filter that names a type the loaded schema
\* does not have
C18_Witness ==
  /\ out.op = "resolveTypeContext"
  /\ out.args[1] /= 0
  /\ findTypeFilter(Documents[out.doc].tree, out.args[1]) /= 0
  /\ out.result.type = JNull
  /\ out.result.documentTypes /= << >>

\* C19: after a successful load every resolved type flagged as a document
\* type, read from either schema shape, has the five built-in fields _id,
\* _type, _createdAt, _updatedAt and _rev.
C19_DocumentTypesHaveBuiltinFields ==
  \A l \in DOMAIN loaders :
    (Returned(l) /\ calls[l].ret = "true")
      => \A i \in 1..Len(loaders[l].resolvedTypes) :
           loaders[l].resolvedTypes[i].val.isDocument
             => \A b \in 1..Len(BuiltinFields) :
                  MapGet(loaders[l].resolvedTypes[i].val.fields,
                         BuiltinFields[b].name) = BuiltinFields[b]

\* C20: with validation disabled a load of a readable file holding valid
\* JSON returns true and leaves getLastValidationError() null, whatever
\* the content.
C20_DisabledValidationLoadsAnyJson ==
  \A l \in DOMAIN loaders :
    (/\ Returned(l)
     /\ calls[l].text /= 0
     /\ Texts[calls[l].text].parses
     /\ ~loaders[l].validationConfig.enabled)
      => /\ calls[l].ret = "true"
         /\ getLastValidationError(loaders[l]) = NullMsg

\* C21: the validation verdict of a schema is cached in the file
\* .<schema file name>.groq-cache in the directory of the schema file: once
\* a validating load with cacheValidation enabled has returned, that file
\* exists.
DocumentedCachePath == PathOf("", ".schema.json.groq-cache")
C21_CacheFileBesideSchema ==
  \A l \in DOMAIN loaders :
    (/\ Returned(l)
     /\ calls[l].text /= 0
     /\ loaders[l].validationConfig.enabled
     /\ loaders[l].validationConfig.cacheValidation
     /\ calls[l].seen \notin {"none", "locked"})
      => existsSync(DocumentedCachePath)

\* C22: a parsed value of the compiled query-type shape is validated by the
\* rules of that shape, a value of the document-store shape by the rules of
\* that one, and a value of neither shape (an empty array and a primitive
\* among them) fails validation with the message that it matches neither
\* format (or that it nests too deep), and loadFromPath returns false.
Verdict(l) ==
  IF calls[l].cause \in {"validation", "cached"}
  THEN Invalid(Unmarked(getLastValidationError(loaders[l])))
  ELSE Valid
UnrecognizedMsg ==
  Msg("Schema does not match expected Sanity or GROQ type schema format",
      "", "", NoNum, NoNum)
C22_ShapeDecidesValidation ==
  \A l \in DOMAIN loaders :
    LET p == Texts[calls[l].text].value
        cfg == loaders[l].validationConfig
    IN (Validated(l) /\ ~ExceedsDepth(p, cfg))
         => IF isGroqTypeSchema(p)
            THEN Verdict(l) = validateGroqTypeSchemaStructure(p, cfg)
            ELSE IF isSanitySchema(p)
            THEN Verdict(l) = validateSanitySchemaStructure(p, cfg)
            ELSE /\ calls[l].ret = "false"
                 /\ Verdict(l) = Invalid(UnrecognizedMsg)
\* an empty array was read from the cache-less file and rejected
C22_Witness ==
  \E l \in DOMAIN loaders :
    /\ Validated(l)
    /\ Texts[calls[l].text].value = JArr(<< >>)
    /\ calls[l].ret = "false"
    /\ getLastValidationError(loaders[l]).cached = 0

\* C23: validation rejects only on strict excess of a limit.  A well-formed
\* schema is rejected exactly when it has more types than maxTypes, a type
\* with more fields than maxFieldsPerType, or a value nested more than
\* maxDepth levels below the root; one with exactly maxTypes types, exactly
\* maxFieldsPerType fields and exactly maxDepth levels is accepted.
WellFormed(p) ==
  /\ isGroqTypeSchema(p) \/ isSanitySchema(p)
  /\ \A i \in 1..Len(DeclaredTypes(p)) :
       HeadOK(DeclaredTypes(p)[i]) /\ FieldsOK(DeclaredTypes(p)[i])
C23_StrictExcessOnly ==
  \A l \in DOMAIN loaders :
    LET p == Texts[calls[l].text].value
        cfg == loaders[l].validationConfig
    IN (Validated(l) /\ WellFormed(p))
         => /\ Verdict(l).valid <=> ~Oversized(p, cfg)
            /\ ~Verdict(l).valid => calls[l].ret = "false"
\* a schema sitting exactly on all three limits was validated and loaded
C23_Witness ==
  \E l \in DOMAIN loaders :
    LET p == Texts[calls[l].text].value
        cfg == loaders[l].validationConfig
    IN /\ Validated(l)
       /\ WellFormed(p)
       /\ JDepth(p) = cfg.maxDepth
       /\ Len(DeclaredTypes(p)) = cfg.maxTypes
       /\ \E i \in 1..Len(DeclaredTypes(p)) :
            FieldCount(p, DeclaredTypes(p)[i]) = cfg.maxFieldsPerType
       /\ calls[l].ret = "true"

\* C24 as stated: for a bare field-name argument of a recorded call every
\* known type is scanned for a field of that name only if the context at
\* the argument has no type; with a context type only that type's field
\* gives the argument's types; an argument of any other shape (not a field
\* name, a subscript, an access or a dereference) contributes none.
FieldTypeNames(field) ==
  IF field = JUndef THEN JNull
  ELSE IF field.isArray /\ HasItems(field.arrayOf) THEN field.arrayOf
  ELSE IF field.isReference /\ HasItems(field.referenceTargets)
  THEN field.referenceTargets
  ELSE IF field.type /= JStr("object") THEN JArr(<< field.type >>)
  ELSE JNull
ScanTypes(L, fieldName) ==
  LET hits == {i \in 1..Len(L.resolvedTypes) :
                 FieldTypeNames(getField(L, L.resolvedTypes[i].key.s, fieldName))
                   /= JNull}
  IN IF hits = {} THEN JNull
     ELSE FieldTypeNames(
            getField(L, L.resolvedTypes[CHOOSE i \in hits :
                                          \A j \in hits : i <= j].key.s,
                     fieldName))
ArgNodes(tree, callNode) ==
  SelectSeq([i \in 1..Len(tree) |-> i],
            LAMBDA i : /\ tree[i].parent = callNode
                       /\ tree[i].named
                       /\ tree[i].field /= "name")
AllCallSites ==
  UNION { ToSet(registry.callSites[f].val) : f \in 1..Len(registry.callSites) }
ArgumentShapes ==
  {"identifier", "subscript_expression", "access_expression",
   "dereference_expression"}
ArgumentsInferred(Pinned(_, _, _)) ==
  (out.op = "extractFromAST" /\ isLoaded(out.args[2]))
    => Let(Documents[out.doc].tree, LAMBDA tree :
         \A site \in AllCallSites :
           Let(ArgNodes(tree, site.callNode), LAMBDA args :
             \A k \in 1..Len(args) :
               IF tree[args[k]].type = "identifier"
               THEN Let(inferTypeContext(tree, args[k], out.args[2]),
                        LAMBDA context :
                      site.argumentTypes[k]
                        = IF context.type = JNull
                          THEN ScanTypes(out.args[2], tree[args[k]].text)
                          ELSE Pinned(out.args[2], context.type,
                                      tree[args[k]].text))
               ELSE tree[args[k]].type \notin ArgumentShapes
                      => site.argumentTypes[k] = JNull))
C24_ScanOnlyWithoutContextType ==
  ArgumentsInferred(LAMBDA L, type, fieldName :
                      FieldTypeNames(MapGet(type.fields, JStr(fieldName))))
\* C24 amended: every known type is also scanned when the context type has
\* no field of that name or its field is a bare object field; only a
\* context type's field that gives type names determines the argument's
\* types alone.
C24_ScanUnlessContextFieldTyped ==
  ArgumentsInferred(LAMBDA L, type, fieldName :
                      IF FieldTypeNames(MapGet(type.fields, JStr(fieldName)))
                           /= JNull
                      THEN FieldTypeNames(MapGet(type.fields, JStr(fieldName)))
                      ELSE ScanTypes(L, fieldName))
\* h(name) under a post filter took the type of author's field name, and
\* the variable, the nested call and the literal gave nothing
C24_Witness ==
  /\ out.op = "extractFromAST"
  /\ out.doc = 6
  /\ isLoaded(out.args[2])
  /\ Len(getCallSites(registry, "h")) = 5
  /\ getCallSites(registry, "h")[1].argumentTypes = << JArr(<< JStr("string") >>) >>
  /\ \A k \in 2..5 : getCallSites(registry, "h")[k].argumentTypes = << JNull >>

\* C25: for a node in a user function body that is a parameter of the
\* function, or an access or subscript whose base is one, and is under no
\* explicit filter and asked about without a source text: when an inferred
\* type or the declared type of the parameter names a type of the loaded
\* schema, the resolved context type is such a type.
ParameterAt(tree, node, functionDef) ==
  LET named(n) == {i \in 1..Len(functionDef.parameters) :
                     /\ n /= 0
                     /\ tree[n].type = "variable"
                     /\ functionDef.parameters[i].name = tree[n].text}
  IN IF tree[node].type \in {"access_expression", "subscript_expression"}
     THEN named(getFieldNode(tree, node, "base"))
     ELSE named(node)
SchemaTypesOf(parameter, L) ==
  { t \in ToSet(parameter.inferredTypes)
           \cup (IF parameter.declaredType = JNull THEN {}
                 ELSE {parameter.declaredType}) :
      MapHas(L.resolvedTypes, t) }
C25_ParameterTypeIsContext ==
  (/\ out.op = "resolveTypeContext"
   /\ out.args[1] /= 0
   /\ out.args[2] /= NoRegistry
   /\ out.args[3] = << >>)
    => Let(Documents[out.doc].tree, LAMBDA tree :
         Let(isInsideFunctionBody(registry, tree, out.args[1]),
             LAMBDA functionDef :
           (/\ functionDef /= JNull
            /\ out.args[1] \in ToSet(walkTree(tree, functionDef.bodyNode))
            /\ findTypeFilter(tree, out.args[1]) = 0)
             => \A i \in ParameterAt(tree, out.args[1], functionDef) :
                  SchemaTypesOf(functionDef.parameters[i], loaders[1]) /= {}
                    => /\ out.result.type /= JNull
                       /\ out.result.type.name
                            \in SchemaTypesOf(functionDef.parameters[i],
                                              loaders[1])))

\* C26: after extractFromAST the call sites recorded for a name are the
\* function-call nodes with that callee name when the tree holds a
\* definition of the name, before or after the call, and none otherwise
\* (built-in and undefined functions); each call node has exactly one
\* entry.
DefinedIn(tree, f) ==
  \E D \in 1..Len(tree) :
    /\ tree[D].type = "function_definition"
    /\ getFieldNode(tree, D, "name") /= 0
    /\ getFieldNode(tree, D, "body") /= 0
    /\ tree[getFieldNode(tree, D, "name")].text = f
CallsOf(tree, f) ==
  { c \in 1..Len(tree) :
      /\ tree[c].type = "function_call"
      /\ getFieldNode(tree, c, "name") /= 0
      /\ tree[getFieldNode(tree, c, "name")].text = f }
C26_CallSitesOfDefinedFunctions ==
  out.op = "extractFromAST"
    => Let(Documents[out.doc].tree, LAMBDA tree :
         \A f \in {tree[n].text : n \in {i \in 1..Len(tree) :
                                           tree[i].type = "identifier"}} :
           Let(getCallSites(registry, f), LAMBDA sites :
             /\ Len(sites) = Cardinality({sites[k].callNode : k \in 1..Len(sites)})
             /\ {sites[k].callNode : k \in 1..Len(sites)}
                  = IF DefinedIn(tree, f) THEN CallsOf(tree, f) ELSE {}))
\* the call of b in the body of a was recorded although b is defined after
\* it
C26_Witness ==
  /\ out.op = "extractFromAST"
  /\ out.doc = 2
  /\ Len(getCallSites(registry, "b")) = 1
  /\ getCallSites(registry, "b")[1].callNode
       < MapGet(registry.definitions, "b").nameNode

\* C27: when the type a field refers or leads to is not in the loaded
\* schema, the resolution of the field's projection gives no type, the
\* fields of the reference's targets are those of the targets the schema
\* has (none when it has none of them), and the caller of
\* resolveTypeContext still receives a context: no type, or a type of the
\* schema.
MissingTargets(L, field) ==
  { t \in (IF field.isReference /\ HasItems(field.referenceTargets)
           THEN {field.referenceTargets.items[1]}
           ELSE IF Truthy(field.type) /\ field.type /= JStr("object")
           THEN {field.type} ELSE {}) :
      ~MapHas(L.resolvedTypes, t) }
\* the field a nested projection of the tree projects, when the expression
\* around the node's projection has an identifier base and the enclosing
\* type has a field of that name
ProjectedField(tree, node, L) ==
  Let(findAncestorOfType(tree, node, {"projection"}), LAMBDA projection :
    IF projection = 0 THEN JUndef
    ELSE IF tree[tree[projection].parent].type /= "projection_expression"
    THEN JUndef
    ELSE Let(getFieldNode(tree, tree[projection].parent, "base"), LAMBDA b :
      IF b = 0 THEN JUndef
      ELSE IF tree[b].type /= "identifier" THEN JUndef
      ELSE Let(getParentTypeContext(tree, tree[projection].parent, L),
               LAMBDA parentType :
             IF parentType = JNull THEN JUndef
             ELSE MapGet(parentType.fields, JStr(tree[b].text)))))
TargetsOf(field) ==
  IF IsArray(field.referenceTargets) THEN ToSet(field.referenceTargets.items)
  ELSE {}
C27_MissingTypeYieldsNothing ==
  /\ (out.op = "resolveTypeContext" /\ out.args[1] /= 0)
       => /\ out.result.type /= JNull
               => getType(loaders[1], out.result.type.name.s) = out.result.type
          /\ Let(ProjectedField(Documents[out.doc].tree, out.args[1],
                                loaders[1]), LAMBDA field :
                (field /= JUndef /\ MissingTargets(loaders[1], field) /= {})
                  => /\ inferNestedFieldType(Documents[out.doc].tree,
                                             out.args[1], loaders[1]) = JNull
                     /\ out.result.type /= JNull
                          => out.result.type.name
                               \notin MissingTargets(loaders[1], field))
  /\ out.op = "getReferenceTargetFields"
       => Let(getField(loaders[1], out.args[1], out.args[2]), LAMBDA field :
            /\ ToSet(out.result.items)
                 \subseteq UNION { ToSet(getFieldsForType(loaders[1], t)) :
                                     t \in TargetsOf(field) }
            /\ (\A t \in TargetsOf(field) :
                   ~MapHas(loaders[1].resolvedTypes, t))
                 => out.result.items = << >>)
\* the context was asked for name inside editor { name } where editor
\* refers to the type person, which the schema does not have
C27_Witness ==
  /\ out.op = "resolveTypeContext"
  /\ out.doc = 4
  /\ out.args[1] /= 0
  /\ out.args[3] = << >>
  /\ Documents[out.doc].tree[out.args[1]].text = "name"
  /\ ProjectedField(Documents[out.doc].tree, out.args[1], loaders[1]) /= JUndef
  /\ MissingTargets(loaders[1],
                    ProjectedField(Documents[out.doc].tree, out.args[1],
                                   loaders[1]))
       = {JStr("person")}

\* C28: every resolved field, read from either schema shape, has at most
\* one of the reference flag and the array flag set, carries reference
\* targets only with the reference flag and array element types only with
\* the array flag.
C28_FieldIsOneKind ==
  \A l \in DOMAIN loaders :
    \A i \in 1..Len(loaders[l].resolvedTypes) :
      \A field \in ToSet(getFieldsForType(loaders[l],
                                          loaders[l].resolvedTypes[i].key)) :
        /\ ~(field.isReference /\ field.isArray)
        /\ field.referenceTargets /= JUndef => field.isReference
        /\ field.arrayOf /= JUndef => field.isArray
\* a reference carrying "of" and an array of references carrying "to" were
\* resolved from a schema of one of the two shapes
C28_Witness ==
  \E l \in DOMAIN loaders :
    /\ Returned(l) /\ calls[l].ret = "true"
    /\ calls[l].text \in {19, 20}
    /\ getField(loaders[l], "post", "author").isReference
    /\ getField(loaders[l], "post", "author").arrayOf = JUndef
    /\ getField(loaders[l], "post", "authors").isArray
    /\ getField(loaders[l], "post", "authors").arrayOf = JArr(<< JStr("reference") >>)
    /\ getField(loaders[l], "post", "authors").referenceTargets = JUndef

\* C29: a parameter's declared type comes from an extension only: after an
\* extractFromAST made while no enabled extension has a definition-extracted
\* hook (none is registered, or the annotation extension is disabled),
\* every parameter's declaredType is null, whatever @param comments the
\* source holds.
C29_DeclaredTypeOnlyFromExtension ==
  (out.op = "extractFromAST" /\ getHook(ext, "onFunctionExtracted") = << >>)
    => \A d \in 1..Len(registry.definitions) :
         \A i \in 1..Len(registry.definitions[d].val.parameters) :
           registry.definitions[d].val.parameters[i].declaredType = JNull

\* C30 as stated: after any sequence of set, delete and clear calls the
\* document cache holds at most maxSize entries and the document passed to
\* the most recent set is retrievable under its URI.
C30_BoundedAndLastSetRetrievable ==
  /\ getSize(documents) <= documents.maxSize
  /\ out.last # NoDocument
       => getDocument(documents, out.last.uri) = out.last

\* C30 amended: as long as no empty URI was ever set, the cache holds at
\* most maxSize entries, and with maxSize at least 1 the document passed to
\* the most recent set is retrievable under its URI until a later delete of
\* that URI or a clear.
C30_BoundedAndLastSetKeptUntilRemoved ==
  ~out.emptyUri =>
    /\ getSize(documents) <= documents.maxSize
    /\ (out.last # NoDocument /\ documents.maxSize >= 1 /\ ~out.removed)
         => getDocument(documents, out.last.uri) = out.last

\* a set on a full cache evicted the oldest entry and kept its own
C30_Witness ==
  /\ out.op = "set"
  /\ ~out.emptyUri
  /\ documents.maxSize >= 1
  /\ out.evicted # << >>
  /\ getSize(documents) = documents.maxSize
  /\ getDocument(documents, out.last.uri) = out.last

====
